---- MODULE Spec2Model ----
(***************************************************************************)
(* A model of the device/context lifecycle core of Alc/alc.cpp: the global *)
(* device list, the per-device context lists, the error latches, the       *)
(* device reconfiguration routine UpdateDeviceParams and the deferred      *)
(* update protocol of ALCcontext_ProcessUpdates.                           *)
(*                                                                         *)
(* Every API entry point is one action: the entry points serialize on      *)
(* ListLock / BackendLock, so each runs to completion before the next.     *)
(* The deferred-update protocol, which races with the mixer thread without *)
(* a lock, is modelled step by step (see the pu* and mx* actions).         *)
(***************************************************************************)
EXTENDS Integers, Sequences, FiniteSets, TLC

\* ------------------------------------------------------------------ bounds
MaxDevices  == 3     \* device objects that can exist at once
TwoDevices  == 2     \* devices a two-device application keeps open
SingleDevice == 1    \* devices a one-device application keeps open
SingleContext == 1   \* contexts a one-context application keeps
MaxContexts == 3     \* context objects that can exist at once
TwoContexts == 2     \* contexts a two-context application keeps
MaxSources  == 1     \* sources per context
MaxSlots    == 2     \* effect slots the application has generated per context
MaxSendCount == 2    \* the largest ALC_MAX_AUXILIARY_SENDS the application asks for
VoiceSlots == 2      \* voices a context's voice block is allocated for
MaxVoiceCalls == 2   \* calls of AllocateVoices made on one voice block
MaxCreates == 3      \* calls of alcCreateContext the creating thread makes
MaxThreads  == 2     \* application threads with a thread-local context
EventRingCap == 1    \* async events a context's ring holds before dropping
MaxBatches  == 2     \* deferred batches the application makes
MaxClockWrites == 4  \* brackets the writers of the device clock make
ClockFrequency == 2  \* samples that make one second of the device clock
NanosPerSecond == 10 \* clock ticks that make one second (the code's are ns)
MaxMixerPasses == 2  \* passes the mixer thread makes

\* ------------------------------------------------------- program constants
AL_NONE            == 0
MIN_OUTPUT_RATE    == 8000
DEFAULT_OUTPUT_RATE == 44100
MAX_SENDS          == 16
DEFAULT_SENDS      == 2
MAX_AMBI_ORDER     == 3
DefaultMaxVoices   == 256

\* The ALC enumerants, with the values of the OpenAL headers (AL/alc.h,
\* AL/alext.h). ALC_FUMA_SOFT is 0, the value of an attribute a list does
\* not give.
ALC_FREQUENCY              == 4103
ALC_MAX_AUXILIARY_SENDS    == 131075
ALC_FORMAT_CHANNELS_SOFT   == 6544
ALC_FORMAT_TYPE_SOFT       == 6545
ALC_HRTF_SOFT              == 6546
ALC_AMBISONIC_LAYOUT_SOFT  == 6551
ALC_AMBISONIC_SCALING_SOFT == 6552
ALC_AMBISONIC_ORDER_SOFT   == 6553
ALC_BYTE_SOFT              == 5120
ALC_UNSIGNED_BYTE_SOFT     == 5121
ALC_SHORT_SOFT             == 5122
ALC_UNSIGNED_SHORT_SOFT    == 5123
ALC_INT_SOFT               == 5124
ALC_UNSIGNED_INT_SOFT      == 5125
ALC_FLOAT_SOFT             == 5126
ALC_MONO_SOFT              == 5376
ALC_STEREO_SOFT            == 5377
ALC_QUAD_SOFT              == 5379
ALC_5POINT1_SOFT           == 5380
ALC_6POINT1_SOFT           == 5381
ALC_7POINT1_SOFT           == 5382
ALC_BFORMAT3D_SOFT         == 5383
ALC_FUMA_SOFT              == 0
ALC_ACN_SOFT               == 1
ALC_SN3D_SOFT              == 1
ALC_N3D_SOFT               == 2
\* A key and a value no switch of the code knows.
ALC_UNKNOWN_ATTRIBUTE      == 9999
InvalidEnumValue           == 7

\* Error codes, device kinds.
ALC_NO_ERROR        == "NoError"
ALC_INVALID_DEVICE  == "InvalidDevice"
ALC_INVALID_CONTEXT == "InvalidContext"
ALC_INVALID_ENUM    == "InvalidEnum"
ALC_INVALID_VALUE   == "InvalidValue"
ALC_OUT_OF_MEMORY   == "OutOfMemory"
Playback == "Playback"
Capture  == "Capture"
Loopback == "Loopback"

NULL    == 0
DevIds  == 1..MaxDevices
CtxIds  == 1..MaxContexts
Threads == 1..MaxThreads

Min(a, b) == IF a < b THEN a ELSE b
Max(a, b) == IF a > b THEN a ELSE b
mini(a, b) == Min(a, b)
maxi(a, b) == Max(a, b)
clampi(v, lo, hi) == mini(hi, maxi(lo, v))

SeqToSet(s) == { s[i] : i \in 1..Len(s) }
InSeq(x, s) == \E i \in 1..Len(s) : s[i] = x
RemoveFirst(s, x) ==
    IF ~InSeq(x, s) THEN s
    ELSE LET k == CHOOSE i \in 1..Len(s) : s[i] = x /\ \A j \in 1..(i-1) : s[j] # x
         IN  SubSeq(s, 1, k-1) \o SubSeq(s, k+1, Len(s))

\* The unlinking of x from a singly linked list (the device list, a device's
\* context list), the list given head first: a compare-exchange of the head
\* with x's successor, and when the head is not x a walk that tries the same
\* compare-exchange on the next pointer of each element in turn. A walk that
\* runs past the last element goes on through a null pointer: the result
\* then is UnlinkUndefined, a list that holds the null pointer.
UnlinkUndefined == << NULL >>
\* A variant of UnlinkWalk that stores null, not x's successor, in the next
\* pointer of x's predecessor.
UnlinkWalkDropsTail(list, i, x) ==
    IF ~InSeq(x, list) THEN UnlinkUndefined
    ELSE SubSeq(list, 1, (CHOOSE k \in 1..Len(list) : list[k] = x) - 1)

RECURSIVE UnlinkWalk(_, _, _)
UnlinkWalk(list, i, x) ==
    IF i >= Len(list) THEN UnlinkUndefined
    ELSE IF list[i + 1] = x
         THEN SubSeq(list, 1, i) \o SubSeq(list, i + 2, Len(list))
         ELSE UnlinkWalk(list, i + 1, x)

\* A variant of Unlink whose compare-exchange of the head always succeeds.
UnlinkHeadOnly(list, x) == Tail(list)

Unlink(list, x) ==
    IF list # << >> /\ list[1] = x THEN Tail(list) ELSE UnlinkWalk(list, 1, x)

VARIABLES
    DeviceList,            \* the global device list, head first
    devs,                  \* DevIds -> device object
    ctxs,                  \* CtxIds -> context object
    LastNullDeviceError,   \* the process-wide error latch
    GlobalContext,         \* the process-wide current context
    LocalContext,          \* Threads -> that thread's thread-local context
    config,                \* what one-shot initialization read (never changes)
    crashed,               \* the process ran into undefined behaviour and died
    last,                  \* what the latest API call was and what it returned
    upd,                   \* deferred-update protocol state (one context)
    held,                  \* the device whose reference a thread that is inside
                           \* an API call holds in its DeviceRef (NULL: none)
    clock,                 \* one device's clock: MixCount, ClockBase, SamplesDone,
                           \* its writers and the reader of ALC_DEVICE_CLOCK_SOFT
    backends,              \* the backend table, the `drivers` setting, what the
                           \* factories answer, and what one-shot initialization
                           \* selected (PlaybackBackend, CaptureBackend)
    pool,                  \* one device's buffer pool: its sub-lists with their
                           \* free-masks, and what was allocated and freed
    voices,                \* one context's voice block: Voices, MaxVoices,
                           \* VoiceCount, the send count it was allocated for,
                           \* and how often each pending update was deleted
    race,                  \* one device with a thread inside alcCreateContext
                           \* and a thread inside alcCloseDevice: their
                           \* positions, the two locks, the reference counts
    locks                  \* who holds ListLock, each device's BackendLock and
                           \* each context's locks, and where each thread is
                           \* inside the API call it runs

vars == << DeviceList, devs, ctxs, LastNullDeviceError, GlobalContext,
           LocalContext, config, crashed, last, upd, held, clock, backends, pool, voices, race, locks >>

\* ------------------------------------------------------------ environment
\* Attribute lists the application passes: the (key, value) pairs before the
\* zero terminator. << >> stands for both a null pointer and a list whose
\* first key is 0.
Attr(key, val) == IF val = AL_NONE THEN << >> ELSE << << key, val >> >>
AttrList(freq, chans, type, layout, scale, order, sends) ==
    Attr(ALC_FREQUENCY, freq) \o Attr(ALC_FORMAT_CHANNELS_SOFT, chans)
    \o Attr(ALC_FORMAT_TYPE_SOFT, type) \o Attr(ALC_AMBISONIC_LAYOUT_SOFT, layout)
    \o Attr(ALC_AMBISONIC_SCALING_SOFT, scale) \o Attr(ALC_AMBISONIC_ORDER_SOFT, order)
    \o Attr(ALC_MAX_AUXILIARY_SENDS, sends)

AttrEmpty  == << >>
\* [FREQUENCY=44100, FORMAT_CHANNELS_SOFT=STEREO, FORMAT_TYPE_SOFT=FLOAT, 0]
AttrStereo == AttrList(44100, ALC_STEREO_SOFT, ALC_FLOAT_SOFT, AL_NONE, AL_NONE, 0, 0)
\* the same with an ambisonic layout, scaling and order
AttrStereoAmbi ==
    AttrList(44100, ALC_STEREO_SOFT, ALC_FLOAT_SOFT, ALC_ACN_SOFT, ALC_N3D_SOFT, 1, 0)
AttrSends(n) ==
    AttrList(44100, ALC_STEREO_SOFT, ALC_FLOAT_SOFT, ALC_ACN_SOFT, ALC_N3D_SOFT, 1, n)
\* only a key the switch does not know
AttrUnknown == << << ALC_UNKNOWN_ATTRIBUTE, InvalidEnumValue >> >>

LifecycleAttrLists == { AttrEmpty, AttrStereoAmbi }
UpdateAttrLists    == { AttrEmpty, AttrSends(1), AttrSends(DEFAULT_SENDS) }
CreateAttrLists    == { AttrEmpty, AttrStereo, AttrStereoAmbi, AttrUnknown }

\* The lists of the attribute space: every format (a value of 0 standing for
\* an attribute the list does not give) without ambisonic attributes, and
\* every ambisonic layout, scaling and order with a valid format.
FormatLists ==
    { AttrList(freq, chans, type, ALC_FUMA_SOFT, ALC_FUMA_SOFT, 0, 0) :
        freq   \in { 0, 7999, 44100 },
        chans  \in { AL_NONE, ALC_STEREO_SOFT, ALC_BFORMAT3D_SOFT, InvalidEnumValue },
        type   \in { AL_NONE, ALC_FLOAT_SOFT, InvalidEnumValue } }
AmbisonicLists ==
    { AttrList(44100, chans, ALC_FLOAT_SOFT, layout, scale, order, 0) :
        chans  \in { ALC_STEREO_SOFT, ALC_BFORMAT3D_SOFT },
        layout \in { AL_NONE, ALC_FUMA_SOFT, ALC_ACN_SOFT, InvalidEnumValue },
        scale  \in { AL_NONE, ALC_FUMA_SOFT, ALC_N3D_SOFT, InvalidEnumValue },
        order  \in { 0, 1, 4 } }
AttrSpace == FormatLists \cup AmbisonicLists

\* What the backend and the renderer answer during one UpdateDeviceParams:
\* reset() and start() results, whether an effect state's deviceUpdate
\* succeeds, and the channel counts aluInitRenderer leaves in the device.
Env(reset, start, slotOK, dry, foa, real) ==
    [ reset |-> reset, start |-> start, slotOK |-> slotOK,
      dry |-> dry, foa |-> foa, real |-> real ]
EnvOK          == Env(TRUE, TRUE, TRUE, 2, 0, 0)
EnvResetFails  == Env(FALSE, TRUE, TRUE, 2, 0, 0)
EnvStartFails  == Env(TRUE, FALSE, TRUE, 2, 0, 0)
EnvSlotFails   == Env(TRUE, TRUE, FALSE, 2, 0, 0)
BackendEnvs    == { EnvOK, EnvResetFails, EnvStartFails }
UpdateEnvs     == BackendEnvs \cup { EnvSlotFails }
                  \cup { Env(TRUE, TRUE, TRUE, 2, 1, 2), Env(TRUE, TRUE, TRUE, 2, 0, 2) }

\* Error codes a backend's open() may report.
BackendOpenResults == { ALC_NO_ERROR, ALC_INVALID_VALUE, ALC_OUT_OF_MEMORY }

\* -------------------------------------------------------------- objects
\* A channel view of the mix buffer: a channel count and the offset of its
\* first channel in MixBuffer (NullBuffer: no buffer).
NullBuffer == 0 - 1
NoView == [ NumChannels |-> 0, Buffer |-> NullBuffer ]

\* A device slot that holds no object.
NoDevice == [ alive |-> FALSE, Type |-> "None", Running |-> FALSE, Paused |-> FALSE,
              Connected |-> FALSE, LastError |-> ALC_NO_ERROR, ref |-> 0,
              NumAuxSends |-> 0, Frequency |-> 0, FmtChans |-> AL_NONE,
              FmtType |-> AL_NONE, mAmbiOrder |-> 0, mAmbiLayout |-> AL_NONE,
              mAmbiScale |-> AL_NONE,
              MixBuffer |-> 0, Dry |-> NoView, FOAOut |-> NoView, RealOut |-> NoView,
              BackendRunning |-> FALSE, ContextList |-> << >> ]

\* ALCdevice_struct as the open functions leave it.
NewDevice(type) ==
    [ NoDevice EXCEPT !.alive = TRUE, !.Type = type, !.Connected = TRUE, !.ref = 1,
                      !.NumAuxSends = IF type = Capture THEN 0 ELSE DEFAULT_SENDS,
                      !.Frequency = DEFAULT_OUTPUT_RATE,
                      !.FmtChans = ALC_STEREO_SOFT,
                      !.FmtType = ALC_FLOAT_SOFT ]

\* A context slot that holds no object.
NoContext == [ alive |-> FALSE, Device |-> NULL, ref |-> 0, DefaultSlot |-> FALSE,
               Sources |-> << >>, MaxVoices |-> 0, VoiceSends |-> 0,
               AsyncEvents |-> 0, SlotRef |-> << >> ]

\* A variant of NewContext that stores another device than the one given.
NewContextOfAnotherDevice(d) ==
    [ NoContext EXCEPT !.alive = TRUE, !.Device = IF d = 1 THEN 2 ELSE 1,
                       !.ref = 1, !.SlotRef = [ k \in 1..MaxSlots |-> 0 ] ]

\* ALCcontext_struct{device}: ref starts at 1, no voices yet. SlotRef[k] is
\* the reference count of the context's effect slot k.
NewContext(d) == [ NoContext EXCEPT !.alive = TRUE, !.Device = d, !.ref = 1,
                                    !.SlotRef = [ k \in 1..MaxSlots |-> 0 ] ]

\* A send of a source: the effect slot it feeds (NULL: none) and its filter
\* gains, "1.0" standing for Gain, GainHF and GainLF of 1.0f with the
\* reference frequencies LOWPASSFREQREF and HIGHPASSFREQREF.
SendGains == { "1.0", "0.5" }
SendInit == [ Slot |-> NULL, Gain |-> "1.0" ]

IsListed(p) == InSeq(p, DeviceList)
FreeDevIds == { d \in DevIds : ~devs[d].alive }
FreeCtxIds == { c \in CtxIds : ~ctxs[c].alive }
LowestOf(S) == CHOOSE x \in S : \A y \in S : x <= y

\* ------------------------------------------------------ UpdateDeviceParams
IsValidALCType(type) ==
    type \in { ALC_BYTE_SOFT, ALC_UNSIGNED_BYTE_SOFT, ALC_SHORT_SOFT,
               ALC_UNSIGNED_SHORT_SOFT, ALC_INT_SOFT, ALC_UNSIGNED_INT_SOFT,
               ALC_FLOAT_SOFT }

IsValidALCChannels(channels) ==
    channels \in { ALC_MONO_SOFT, ALC_STEREO_SOFT, ALC_QUAD_SOFT, ALC_5POINT1_SOFT,
                   ALC_6POINT1_SOFT, ALC_7POINT1_SOFT, ALC_BFORMAT3D_SOFT }

IsValidAmbiLayout(layout) == layout \in { ALC_ACN_SOFT, ALC_FUMA_SOFT }

IsValidAmbiScaling(scaling) == scaling \in { ALC_N3D_SOFT, ALC_SN3D_SOFT, ALC_FUMA_SOFT }

\* The locals the attribute loop fills in; numSends starts as old_sends.
AttrDefaults(old_sends) ==
    [ schans |-> AL_NONE, stype |-> AL_NONE, freq |-> 0, alayout |-> AL_NONE,
      ascale |-> AL_NONE, aorder |-> 0, numSends |-> old_sends ]

\* while(attrList[attrIdx]) { switch(attrList[attrIdx]) ... attrIdx += 2; }
RECURSIVE ParseAttrs(_, _, _)
ParseAttrs(attrList, attrIdx, acc) ==
    IF attrIdx > Len(attrList) THEN acc
    ELSE LET key == attrList[attrIdx][1]
             val == attrList[attrIdx][2]
             nxt == CASE key = ALC_FORMAT_CHANNELS_SOFT   -> [acc EXCEPT !.schans = val]
                      [] key = ALC_FORMAT_TYPE_SOFT       -> [acc EXCEPT !.stype = val]
                      [] key = ALC_FREQUENCY              -> [acc EXCEPT !.freq = val]
                      [] key = ALC_AMBISONIC_LAYOUT_SOFT  -> [acc EXCEPT !.alayout = val]
                      [] key = ALC_AMBISONIC_SCALING_SOFT -> [acc EXCEPT !.ascale = val]
                      [] key = ALC_AMBISONIC_ORDER_SOFT   -> [acc EXCEPT !.aorder = val]
                      [] key = ALC_MAX_AUXILIARY_SENDS    ->
                             [acc EXCEPT !.numSends = clampi(val, 0, MAX_SENDS)]
                      [] OTHER -> acc
         IN  ParseAttrs(attrList, attrIdx + 1, nxt)

\* A variant of LoopbackAttrCheck that tests the ambisonic order against
\* its lower limit only.
LoopbackAttrCheckOrderUnlimited(a) ==
    IF a.schans = AL_NONE \/ a.stype = AL_NONE \/ a.freq = 0
        THEN ALC_INVALID_VALUE
    ELSE IF a.schans = ALC_BFORMAT3D_SOFT
            /\ (a.alayout = AL_NONE \/ a.ascale = AL_NONE \/ a.aorder = 0)
        THEN ALC_INVALID_VALUE
    ELSE IF ~IsValidALCChannels(a.schans) \/ ~IsValidALCType(a.stype)
            \/ a.freq < MIN_OUTPUT_RATE
        THEN ALC_INVALID_VALUE
    ELSE IF ~IsValidAmbiLayout(a.alayout) \/ ~IsValidAmbiScaling(a.ascale)
        THEN ALC_INVALID_VALUE
    ELSE IF a.aorder < 1
        THEN ALC_INVALID_VALUE
    ELSE ALC_NO_ERROR

\* The loopback-only validation of the parsed attributes: the error it
\* returns, or ALC_NO_ERROR when the attributes pass.
LoopbackAttrCheck(a) ==
    IF a.schans = AL_NONE \/ a.stype = AL_NONE \/ a.freq = 0
        THEN ALC_INVALID_VALUE
    ELSE IF a.schans = ALC_BFORMAT3D_SOFT
            /\ (a.alayout = AL_NONE \/ a.ascale = AL_NONE \/ a.aorder = 0)
        THEN ALC_INVALID_VALUE
    ELSE IF ~IsValidALCChannels(a.schans) \/ ~IsValidALCType(a.stype)
            \/ a.freq < MIN_OUTPUT_RATE
        THEN ALC_INVALID_VALUE
    ELSE IF ~IsValidAmbiLayout(a.alayout) \/ ~IsValidAmbiScaling(a.ascale)
        THEN ALC_INVALID_VALUE
    ELSE IF a.aorder < 1 \/ a.aorder > MAX_AMBI_ORDER
        THEN ALC_INVALID_VALUE
    ELSE IF (a.alayout = ALC_FUMA_SOFT \/ a.ascale = ALC_FUMA_SOFT) /\ a.aorder > 3
        THEN ALC_INVALID_VALUE
    ELSE ALC_NO_ERROR

\* if((device->Flags&DEVICE_RUNNING)) V0(device->Backend,stop)();
\* device->Flags &= ~DEVICE_RUNNING;
StopIfRunning(device) ==
    [ device EXCEPT !.BackendRunning = IF device.Running THEN FALSE ELSE @,
                    !.Running = FALSE ]
StopCalls(device) == IF device.Running THEN << "stop" >> ELSE << >>

\* What one call of UpdateDeviceParams produces: the code it returns, the
\* device and the contexts as it leaves them, and the backend calls it made.
UDPResult(err, device, cs, calls) ==
    [ err |-> err, device |-> device, ctxs |-> cs, calls |-> calls ]

\* The attribute block (taken only when the list is not empty): parse, stop
\* the device, validate a loopback format, store the requested format.
UDPAttrs(device, attrList) ==
    LET loopback  == device.Type = Loopback
        old_sends == device.NumAuxSends
        a         == ParseAttrs(attrList, 1, AttrDefaults(old_sends))
        d1        == IF loopback THEN device ELSE StopIfRunning(device)
        c1        == IF loopback THEN << >> ELSE StopCalls(device)
        chk       == IF loopback THEN LoopbackAttrCheck(a) ELSE ALC_NO_ERROR
        d2        == StopIfRunning(d1)
        c2        == c1 \o StopCalls(d1)
        d3        == IF loopback
                     THEN [ d2 EXCEPT
                              !.Frequency = a.freq, !.FmtChans = a.schans,
                              !.FmtType = a.stype,
                              !.mAmbiOrder = IF a.schans = ALC_BFORMAT3D_SOFT
                                             THEN a.aorder ELSE @,
                              !.mAmbiLayout = IF a.schans = ALC_BFORMAT3D_SOFT
                                              THEN a.alayout ELSE @,
                              !.mAmbiScale = IF a.schans = ALC_BFORMAT3D_SOFT
                                             THEN a.ascale ELSE @ ]
                     ELSE [ d2 EXCEPT !.Frequency =
                                IF a.freq < 1 THEN DEFAULT_OUTPUT_RATE
                                ELSE maxi(a.freq, MIN_OUTPUT_RATE) ]
    IN  IF chk # ALC_NO_ERROR
        THEN [ err |-> chk, device |-> d1, new_sends |-> old_sends, calls |-> c1 ]
        ELSE [ err |-> ALC_NO_ERROR, device |-> d3, new_sends |-> a.numSends,
               calls |-> c2 ]

\* aluInitRenderer: leaves the renderer's channel counts in the device.
aluInitRenderer(device, env) ==
    [ device EXCEPT !.Dry.NumChannels = env.dry,
                    !.FOAOut.NumChannels = env.foa,
                    !.RealOut.NumChannels = env.real ]

\* A variant of SetupMixBuffer that sizes MixBuffer without the first-order
\* ambisonic channels.
SetupMixBufferWithoutFOA(device) ==
    LET dry       == device.Dry.NumChannels
        foa       == device.FOAOut.NumChannels
        real      == device.RealOut.NumChannels
        num_chans == dry + real
    IN  [ device EXCEPT
            !.MixBuffer = num_chans,
            !.Dry.Buffer = 0,
            !.RealOut = IF real # 0
                        THEN [ NumChannels |-> real, Buffer |-> dry + foa ]
                        ELSE [ NumChannels |-> dry, Buffer |-> 0 ],
            !.FOAOut  = IF foa # 0
                        THEN [ NumChannels |-> foa, Buffer |-> dry ]
                        ELSE [ NumChannels |-> dry, Buffer |-> 0 ] ]

\* MixBuffer.resize(num_chans) and the three views into it; a view the
\* renderer left without channels aliases the dry view and takes its count.
SetupMixBuffer(device) ==
    LET dry       == device.Dry.NumChannels
        foa       == device.FOAOut.NumChannels
        real      == device.RealOut.NumChannels
        num_chans == dry + foa + real
    IN  [ device EXCEPT
            !.MixBuffer = num_chans,
            !.Dry.Buffer = 0,
            !.RealOut = IF real # 0
                        THEN [ NumChannels |-> real, Buffer |-> dry + foa ]
                        ELSE [ NumChannels |-> dry, Buffer |-> 0 ],
            !.FOAOut  = IF foa # 0
                        THEN [ NumChannels |-> foa, Buffer |-> dry ]
                        ELSE [ NumChannels |-> dry, Buffer |-> 0 ] ]

\* A variant of ResizeSend that leaves the send array as it is.
ResizeSendSkipped(Send, n) == Send

\* source->Send.resize(device->NumAuxSends), new sends initialised.
ResizeSend(Send, n) == [ i \in 1..n |-> IF i <= Len(Send) THEN Send[i] ELSE SendInit ]

\* A variant of ReleaseSends that gives no reference back.
ReleaseSendsKept(SlotRef, Send, s, old_sends) == SlotRef

\* for(s = device->NumAuxSends;s < old_sends;s++)
\*     if(source->Send[s].Slot) DecrementRef(&source->Send[s].Slot->ref);
\* s counts from 1 here: the sends s+1..old_sends are released.
RECURSIVE ReleaseSends(_, _, _, _)
ReleaseSends(SlotRef, Send, s, old_sends) ==
    IF s >= old_sends THEN SlotRef
    ELSE ReleaseSends(IF Send[s + 1].Slot # NULL
                      THEN [ SlotRef EXCEPT ![Send[s + 1].Slot] = @ - 1 ]
                      ELSE SlotRef,
                      Send, s + 1, old_sends)

\* The loop over the live sources of a context, from source i on.
RECURSIVE UpdateSources(_, _, _, _)
UpdateSources(context, i, old_sends, num_sends) ==
    IF i > Len(context.Sources) THEN context
    ELSE UpdateSources(
           [ context EXCEPT
               !.SlotRef = ReleaseSends(@, context.Sources[i], num_sends, old_sends),
               !.Sources[i] = ResizeSend(@, num_sends) ],
           i + 1, old_sends, num_sends)

\* AllocateVoices(context, num_voices, old_sends), num_sends being the
\* device's send count at the call.
AllocateVoices(context, num_voices, old_sends, num_sends) ==
    IF num_voices = context.MaxVoices /\ num_sends = old_sends
    THEN context
    ELSE [ context EXCEPT !.MaxVoices = num_voices, !.VoiceSends = num_sends ]

\* The body of the loop over the device's contexts: every live source gets
\* a send array of the new length, the voices are reallocated.
UpdateContextForDevice(context, old_sends, num_sends) ==
    LET resized == IF old_sends # num_sends
                   THEN UpdateSources(context, 1, old_sends, num_sends)
                   ELSE context
    IN  AllocateVoices(resized, resized.MaxVoices, old_sends, num_sends)

\* A variant of UDPReset that starts the backend of a paused device too.
UDPResetStartsPaused(device, cs, old_sends, new_sends, calls, env) ==
    LET cleared == [ device EXCEPT !.Dry = NoView, !.FOAOut = NoView,
                                   !.RealOut = NoView, !.MixBuffer = 0 ]
        calls1  == Append(calls, IF env.reset THEN "reset" ELSE "reset failed")
        sized   == [ SetupMixBuffer(aluInitRenderer(cleared, env))
                        EXCEPT !.NumAuxSends = new_sends ]
        attached == SeqToSet(device.ContextList)
        cs1     == [ c \in CtxIds |->
                       IF c \in attached
                       THEN UpdateContextForDevice(cs[c], old_sends, sized.NumAuxSends)
                       ELSE cs[c] ]
        update_failed == \E c \in attached : cs[c].DefaultSlot /\ ~env.slotOK
        calls2  == Append(calls1, IF env.start THEN "start" ELSE "start failed")
    IN  IF ~env.reset THEN UDPResult(ALC_INVALID_DEVICE, cleared, cs, calls1)
        ELSE IF update_failed THEN UDPResult(ALC_INVALID_DEVICE, sized, cs1, calls1)
        ELSE IF ~env.start THEN UDPResult(ALC_INVALID_DEVICE, sized, cs1, calls2)
        ELSE UDPResult(ALC_NO_ERROR,
                       [ sized EXCEPT !.Running = TRUE, !.BackendRunning = TRUE ],
                       cs1, calls2)

\* From the DEVICE_RUNNING test on: clear the buffers, reset the backend,
\* set up the mix buffer, update the contexts, start the backend.
UDPReset(device, cs, old_sends, new_sends, calls, env) ==
    LET cleared == [ device EXCEPT !.Dry = NoView, !.FOAOut = NoView,
                                   !.RealOut = NoView, !.MixBuffer = 0 ]
        calls1  == Append(calls, IF env.reset THEN "reset" ELSE "reset failed")
        sized   == [ SetupMixBuffer(aluInitRenderer(cleared, env))
                        EXCEPT !.NumAuxSends = new_sends ]
        attached == SeqToSet(device.ContextList)
        cs1     == [ c \in CtxIds |->
                       IF c \in attached
                       THEN UpdateContextForDevice(cs[c], old_sends, sized.NumAuxSends)
                       ELSE cs[c] ]
        update_failed == \E c \in attached : cs[c].DefaultSlot /\ ~env.slotOK
        calls2  == Append(calls1, IF env.start THEN "start" ELSE "start failed")
    IN  IF ~env.reset THEN UDPResult(ALC_INVALID_DEVICE, cleared, cs, calls1)
        ELSE IF update_failed THEN UDPResult(ALC_INVALID_DEVICE, sized, cs1, calls1)
        ELSE IF sized.Paused THEN UDPResult(ALC_NO_ERROR, sized, cs1, calls1)
        ELSE IF ~env.start THEN UDPResult(ALC_INVALID_DEVICE, sized, cs1, calls2)
        ELSE UDPResult(ALC_NO_ERROR,
                       [ sized EXCEPT !.Running = TRUE, !.BackendRunning = TRUE ],
                       cs1, calls2)

\* A variant of UpdateDeviceParams without the test for a loopback device
\* given no attributes.
UpdateDeviceParamsDefaultsForLoopback(device, cs, attrList, env) ==
    LET old_sends == device.NumAuxSends
        A == IF Len(attrList) > 0 THEN UDPAttrs(device, attrList)
             ELSE [ err |-> ALC_NO_ERROR, device |-> device, new_sends |-> old_sends,
                    calls |-> << >> ]
    IN  IF A.err # ALC_NO_ERROR
            THEN UDPResult(A.err, A.device, cs, A.calls)
        ELSE IF A.device.Running
            THEN UDPResult(ALC_NO_ERROR, A.device, cs, A.calls)
        ELSE UDPReset(A.device, cs, old_sends, A.new_sends, A.calls, env)

\* A variant of UpdateDeviceParams that stops and resets a running device
\* when it is given no attributes.
UpdateDeviceParamsResetsWithoutAttributes(device, cs, attrList, env) ==
    LET old_sends == device.NumAuxSends
        given     == Len(attrList) > 0
        A == IF given THEN UDPAttrs(device, attrList)
             ELSE [ err |-> ALC_NO_ERROR, device |-> device, new_sends |-> old_sends,
                    calls |-> << >> ]
    IN  IF ~given /\ device.Type = Loopback
            THEN UDPResult(ALC_INVALID_VALUE, device, cs, << >>)
        ELSE IF A.err # ALC_NO_ERROR
            THEN UDPResult(A.err, A.device, cs, A.calls)
        ELSE UDPReset(StopIfRunning(A.device), cs, old_sends, A.new_sends,
                      A.calls \o StopCalls(A.device), env)

\* A variant of UpdateDeviceParams that goes on with a running device.
UpdateDeviceParamsWhileRunning(device, cs, attrList, env) ==
    LET old_sends == device.NumAuxSends
        given     == Len(attrList) > 0
        A == IF given THEN UDPAttrs(device, attrList)
             ELSE [ err |-> ALC_NO_ERROR, device |-> device, new_sends |-> old_sends,
                    calls |-> << >> ]
    IN  IF ~given /\ device.Type = Loopback
            THEN UDPResult(ALC_INVALID_VALUE, device, cs, << >>)
        ELSE IF A.err # ALC_NO_ERROR
            THEN UDPResult(A.err, A.device, cs, A.calls)
        ELSE UDPReset(A.device, cs, old_sends, A.new_sends, A.calls, env)

\* UpdateDeviceParams(device, attrList)
UpdateDeviceParams(device, cs, attrList, env) ==
    LET old_sends == device.NumAuxSends
        given     == Len(attrList) > 0
        A == IF given THEN UDPAttrs(device, attrList)
             ELSE [ err |-> ALC_NO_ERROR, device |-> device, new_sends |-> old_sends,
                    calls |-> << >> ]
    IN  IF ~given /\ device.Type = Loopback
            THEN UDPResult(ALC_INVALID_VALUE, device, cs, << >>)
        ELSE IF A.err # ALC_NO_ERROR
            THEN UDPResult(A.err, A.device, cs, A.calls)
        ELSE IF A.device.Running
            THEN UDPResult(ALC_NO_ERROR, A.device, cs, A.calls)
        ELSE UDPReset(A.device, cs, old_sends, A.new_sends, A.calls, env)

\* aluHandleDisconnect: the first call on a connected device clears
\* Connected and posts a disconnect event to every attached context.
PostEvent(context) ==
    [ context EXCEPT !.AsyncEvents = mini(@ + 1, EventRingCap) ]

aluHandleDisconnect(device, cs) ==
    IF ~device.Connected THEN [ device |-> device, ctxs |-> cs ]
    ELSE [ device |-> [ device EXCEPT !.Connected = FALSE ],
           ctxs   |-> [ c \in CtxIds |->
                          IF InSeq(c, device.ContextList) THEN PostEvent(cs[c])
                          ELSE cs[c] ] ]

\* ------------------------------------------------------- reference counts
\* The objects an API call works on, threaded through its steps.
World(ds, cs, g, l) == [ devs |-> ds, ctxs |-> cs, Global |-> g, Local |-> l ]
Here == World(devs, ctxs, GlobalContext, LocalContext)

\* ALCdevice_DecRef: the last reference deletes the device.
ALCdevice_DecRef(ds, d) ==
    IF ds[d].ref = 1 THEN [ ds EXCEPT ![d] = NoDevice ]
    ELSE [ ds EXCEPT ![d].ref = @ - 1 ]

ALCdevice_IncRef(ds, d) == [ ds EXCEPT ![d].ref = @ + 1 ]

\* A variant of ALCcontext_DecRef whose destructor keeps the context's
\* reference on its device.
ALCcontext_DecRefKeepsDevice(w, c) ==
    IF w.ctxs[c].ref = 1 THEN [ w EXCEPT !.ctxs[c] = NoContext ]
    ELSE [ w EXCEPT !.ctxs[c].ref = @ - 1 ]

\* ALCcontext_DecRef: the last reference runs ~ALCcontext_struct, which
\* gives the context's device reference back.
ALCcontext_DecRef(w, c) ==
    IF w.ctxs[c].ref = 1
    THEN [ w EXCEPT !.ctxs[c] = NoContext,
                    !.devs = ALCdevice_DecRef(w.devs, w.ctxs[c].Device) ]
    ELSE [ w EXCEPT !.ctxs[c].ref = @ - 1 ]

\* A variant of VerifyDevice that looks at the head of the list only.
VerifyDeviceHeadOnly(p) ==
    IF DeviceList # << >> /\ DeviceList[1] = p THEN p ELSE NULL

\* VerifyDevice(p) finds p exactly when it is linked in the device list.
VerifyDevice(p) == IF IsListed(p) THEN p ELSE NULL

ALCcontext_IncRef(w, c) == [ w EXCEPT !.ctxs[c].ref = @ + 1 ]

\* A variant of ContextRefReset that gives nothing back.
ContextRefResetKept(w, c) == w

\* ~ContextRef: the reference, if any, is given back.
ContextRefReset(w, c) == IF c = NULL THEN w ELSE ALCcontext_DecRef(w, c)

\* ReleaseThreadCtx(context): the count is decremented; the context is not
\* deleted when it reaches zero.
ReleaseThreadCtx(w, c) == [ w EXCEPT !.ctxs[c].ref = @ - 1 ]

\* VerifyContext(c) finds c when it is in the context list of a listed device.
VerifyContext(c) ==
    IF \E d \in SeqToSet(DeviceList) : InSeq(c, devs[d].ContextList) THEN c ELSE NULL

\* A variant of ReleaseContext that reports other contexts only when the
\* context it unlinked was the head of the list.
ReleaseContextTailUnseen(w, c, d, t) ==
    LET w1 == IF w.Local[t] = c
              THEN ALCcontext_DecRef([ w EXCEPT !.Local[t] = NULL ], c) ELSE w
        w2 == IF w1.Global = c
              THEN ALCcontext_DecRef([ w1 EXCEPT !.Global = NULL ], c) ELSE w1
        list   == w2.devs[d].ContextList
        atHead == Len(list) > 0 /\ list[1] = c
        w3 == [ w2 EXCEPT !.devs[d].ContextList = Unlink(list, c) ]
    IN  [ world  |-> ALCcontext_DecRef(w3, c),
          others |-> IF atHead THEN Len(list) > 1 ELSE FALSE ]

\* ReleaseContext(context, device) run by thread t: drop the thread-local and
\* the process-wide current reference when they are this context, unlink it
\* from the device's context list, drop the list's reference. others tells
\* whether the unlinking saw another context remain (its return value).
ReleaseContext(w, c, d, t) ==
    LET w1 == IF w.Local[t] = c
              THEN ALCcontext_DecRef([ w EXCEPT !.Local[t] = NULL ], c) ELSE w
        w2 == IF w1.Global = c
              THEN ALCcontext_DecRef([ w1 EXCEPT !.Global = NULL ], c) ELSE w1
        list   == w2.devs[d].ContextList
        atHead == Len(list) > 0 /\ list[1] = c
        w3 == [ w2 EXCEPT !.devs[d].ContextList = Unlink(list, c) ]
    IN  [ world  |-> ALCcontext_DecRef(w3, c),
          others |-> IF atHead THEN Len(list) > 1 ELSE TRUE ]

\* A variant of ReleaseAllContexts that releases the first context only.
ReleaseAllContextsFirstOnly(w, list, d, t) ==
    IF list = << >> THEN w ELSE ReleaseContext(w, Head(list), d, t).world

\* The loop of alcCloseDevice over the contexts still attached.
RECURSIVE ReleaseAllContexts(_, _, _, _)
ReleaseAllContexts(w, list, d, t) ==
    IF list = << >> THEN w
    ELSE ReleaseAllContexts(ReleaseContext(w, Head(list), d, t).world, Tail(list), d, t)

\* ------------------------------------------------------------ the record
\* of the latest API call: its name, its device and context arguments (ctx
\* is the context created, for alcCreateContext), what it returned, the code
\* UpdateDeviceParams or the backend's open() returned ("NotCalled" when
\* neither ran), the calls it made on the backend ("... failed" for a call
\* the backend answered with a failure), and its attribute list. A call that
\* unlinks from a list also records, as list, the list it found.
Call(op, p, c, ret, err, calls, attrs) ==
    [ op |-> op, dev |-> p, ctx |-> c, ret |-> ret, err |-> err, calls |-> calls,
      attrs |-> attrs ]
NoCall == Call("none", NULL, NULL, "void", "NotCalled", << >>, << >>)

Configs == [ DefaultEffect : BOOLEAN ]

\* The deferred-update state of one context. Entities: the context's own
\* properties, the listener, the effect slots, the sources. value is the
\* batch of an entity's latest mutation, Update the batch of the update
\* published for the mixer (0: none), applied the batch the mixer uses.
\* "sources" are the sources that play on a voice; IdlePropsClean is the
\* PropsClean flag of a source that has no voice.
Entities == << "context", "listener", "slots", "sources" >>
EntitySet == SeqToSet(Entities)

UpdIdle ==
    [ pc |-> "idle", pc2 |-> "idle", DeferUpdates |-> FALSE, HoldUpdates |-> FALSE, UpdateCount |-> 0,
      PropsClean |-> [ e \in EntitySet |-> TRUE ],
      IdlePropsClean |-> TRUE,
      value      |-> [ e \in EntitySet |-> 0 ],
      Update     |-> [ e \in EntitySet |-> 0 ],
      applied    |-> [ e \in EntitySet |-> 0 ],
      mixer |-> "idle", next |-> 1, batch |-> 0,
      mutated |-> [ b \in 1..MaxBatches |-> {} ] ]

\* The clock of one device. mixer and ucb are the positions of the mixer
\* thread and of UpdateClockBase, reader that of the ALC_DEVICE_CLOCK_SOFT
\* query with its locals refcount, basecount and samplecount. writes counts
\* the writers' brackets, retried tells that the query went round its loop
\* again, and seen holds the pairs (ClockBase, SamplesDone) the device had
\* since the query began.
ClockIdle ==
    [ MixCount |-> 0, ClockBase |-> 0, SamplesDone |-> 0, BackendLock |-> "free",
      Frequency |-> ClockFrequency, updates |-> 0,
      mixer |-> "idle", ucb |-> "idle", writes |-> 0,
      reader |-> "idle", refcount |-> 0, basecount |-> 0, samplecount |-> 0,
      retried |-> FALSE, seen |-> {} ]

\* ------------------------------------------------- backend selection
\* The compiled-in backend table (three of the entries of BackendList, in
\* table order) and the name of a BackendInfo that was never assigned.
BackendTable == << "alsa", "null", "wave" >>
BackendNames == { BackendTable[k] : k \in 1..Len(BackendTable) }
NoName == ""

\* A `drivers` setting is a string; it is modelled as the sequence of its
\* tokens: a comma, a minus sign, a backend name, or a name no backend has.
Comma == ","
Minus == "-"
UnknownName == "bogus"
DriverTokens == { Comma, Minus, UnknownName } \cup BackendNames

\* The pieces strchr(devs, ',') cuts the setting into: a setting with k
\* commas has k+1 pieces, each possibly empty.
RECURSIVE Pieces(_)
Pieces(setting) ==
    LET commas == { k \in 1..Len(setting) : setting[k] = Comma }
    IN  IF commas = {} THEN << setting >>
        ELSE LET k == CHOOSE x \in commas : \A y \in commas : x <= y
             IN  << SubSeq(setting, 1, k - 1) >>
                 \o Pieces(SubSeq(setting, k + 1, Len(setting)))

\* One turn of the do-while loop over the pieces: st is BackendList (its
\* length is BackendListSize), the count i of entries moved to the front, and
\* endlist.
DriversEntry(st, piece) ==
    LET delitem == piece # << >> /\ piece[1] = Minus
        name    == IF delitem THEN Tail(piece) ELSE piece
        found   == { n \in (st.i + 1)..Len(st.list) : << st.list[n] >> = name }
    IN  IF name = << >> THEN [ st EXCEPT !.endlist = FALSE ]
        ELSE IF found = {} THEN [ st EXCEPT !.endlist = TRUE ]
        ELSE LET n == CHOOSE x \in found : \A y \in found : x <= y
             IN  IF delitem
                 THEN [ list    |-> SubSeq(st.list, 1, n - 1)
                                    \o SubSeq(st.list, n + 1, Len(st.list)),
                        i       |-> st.i,
                        endlist |-> TRUE ]
                 ELSE [ list    |-> SubSeq(st.list, 1, st.i) \o << st.list[n] >>
                                    \o SubSeq(st.list, st.i + 1, n - 1)
                                    \o SubSeq(st.list, n + 1, Len(st.list)),
                        i       |-> st.i + 1,
                        endlist |-> TRUE ]

RECURSIVE DriversLoop(_, _, _)
DriversLoop(st, pieces, k) ==
    IF k > Len(pieces) THEN st
    ELSE DriversLoop(DriversEntry(st, pieces[k]), pieces, k + 1)

\* A variant of DriversList that cuts the list after the names moved to the
\* front whatever the last piece is.
DriversListAlwaysCut(table, setting) ==
    LET st == DriversLoop([ list |-> table, i |-> 0, endlist |-> FALSE ],
                          Pieces(setting), 1)
    IN  SubSeq(st.list, 1, st.i)

\* BackendList[0..BackendListSize) after the `drivers` setting was applied.
DriversList(table, setting) ==
    LET st == DriversLoop([ list |-> table, i |-> 0, endlist |-> FALSE ],
                          Pieces(setting), 1)
    IN  IF st.endlist THEN SubSeq(st.list, 1, st.i) ELSE st.list

\* A variant of InitBackend that ignores what the factory's init() said.
InitBackendUnchecked(b, name) ==
    [ b EXCEPT !.initialized = Append(@, name),
               !.BackendList = Append(@, name),
               !.PlaybackBackend =
                   IF @ = NoName /\ name \in b.playback THEN name ELSE @,
               !.CaptureBackend =
                   IF @ = NoName /\ name \in b.capture THEN name ELSE @ ]

\* One turn of the loop that initializes the candidates: the factory's
\* init() is called; an entry whose init() fails is dropped, another one is
\* kept and becomes the playback and/or capture backend when none is
\* selected yet and the factory reports support for that kind.
InitBackend(b, name) ==
    IF name \notin b.works
    THEN [ b EXCEPT !.initialized = Append(@, name) ]
    ELSE [ b EXCEPT !.initialized = Append(@, name),
                    !.BackendList = Append(@, name),
                    !.PlaybackBackend =
                        IF @ = NoName /\ name \in b.playback THEN name ELSE @,
                    !.CaptureBackend =
                        IF @ = NoName /\ name \in b.capture THEN name ELSE @ ]

RECURSIVE InitLoop(_, _, _)
InitLoop(b, list, k) ==
    IF k > Len(list) \/ (b.PlaybackBackend # NoName /\ b.CaptureBackend # NoName)
    THEN b
    ELSE InitLoop(InitBackend(b, list[k]), list, k + 1)

\* alc_initconfig, as far as the backends go.
alc_initconfig(b) ==
    LET list == IF b.hasDrivers THEN DriversList(BackendTable, b.drivers)
                ELSE BackendTable
    IN  InitLoop([ b EXCEPT !.once = TRUE, !.candidates = list,
                            !.BackendList = << >> ], list, 1)

\* DO_INITCONFIG(): std::call_once runs alc_initconfig the first time only.
DO_INITCONFIG(b) == IF b.once THEN b ELSE alc_initconfig(b)

\* Before initialization. hasDrivers: ALSOFT_DRIVERS or the configuration
\* file has a `drivers` value; works / playback / capture: the backends whose
\* factory's init() succeeds and whose querySupport says yes for the kind.
Backends(hasDrivers, drivers, works, playback, capture) ==
    [ hasDrivers |-> hasDrivers, drivers |-> drivers,
      works |-> works, playback |-> playback, capture |-> capture,
      once |-> FALSE, candidates |-> << >>, initialized |-> << >>,
      BackendList |-> BackendTable,
      PlaybackBackend |-> NoName, CaptureBackend |-> NoName ]

\* No `drivers` setting and every backend usable for both kinds.
BackendsDefault ==
    Backends(FALSE, << >>, BackendNames, BackendNames, BackendNames)

\* ------------------------------------------------------- the object pool
\* A sub-list holds SubListSlots objects and a free-mask with one bit per
\* slot (1 = free); the mask is the set of the slots whose bit is set.
SubListSlots == 3
Slots == 0..(SubListSlots - 1)

\* The device after construction: no sub-list. serial numbers the objects
\* in the order of their allocation; freed is every handle freed so far.
PoolIdle ==
    [ SubLists |-> << >>, allocs |-> 0, frees |-> 0, freed |-> {},
      op |-> "none", handle |-> 0, torn |-> FALSE, count |-> 0 ]

NoObject == 0
FreshSubList == [ FreeMask |-> Slots, Objects |-> [ i \in Slots |-> NoObject ] ]

\* ~sublist.FreeMask, POPCNT64 and CTZ64.
UseMask(sublist) == Slots \ sublist.FreeMask
POPCNT64(mask) == Cardinality(mask)
CTZ64(mask) == CHOOSE i \in mask : \A j \in mask : i <= j

\* A handle holds the sub-list index and the slot index, plus one (0 is no
\* handle).
HandleOf(lidx, slidx) == lidx * SubListSlots + slidx + 1
SubListOf(h) == (h - 1) \div SubListSlots
SlotOf(h) == (h - 1) % SubListSlots

\* The object a handle addresses: none when the sub-list is missing or the
\* slot's bit is set.
LookupObject(p, h) ==
    IF h < 1 \/ SubListOf(h) >= Len(p.SubLists) THEN NoObject
    ELSE IF SlotOf(h) \in p.SubLists[SubListOf(h) + 1].FreeMask THEN NoObject
    ELSE p.SubLists[SubListOf(h) + 1].Objects[SlotOf(h)]

\* A variant of LiveCount that counts the set bits of the masks.
LiveCountOfFreeBits(p) ==
    LET RECURSIVE Sum(_)
        Sum(k) == IF k = 0 THEN 0
                  ELSE Sum(k - 1) + POPCNT64(p.SubLists[k].FreeMask)
    IN  Sum(Len(p.SubLists))

\* std::accumulate over the sub-lists of POPCNT64(~sublist.FreeMask).
LiveCount(p) ==
    LET RECURSIVE Sum(_)
        Sum(k) == IF k = 0 THEN 0
                  ELSE Sum(k - 1) + POPCNT64(UseMask(p.SubLists[k]))
    IN  Sum(Len(p.SubLists))

\* The slots the loop over a sub-list visits: while(usemask) takes
\* CTZ64(usemask) and clears that bit.
RECURSIVE UsedSlots(_)
UsedSlots(usemask) ==
    IF usemask = {} THEN << >>
    ELSE << CTZ64(usemask) >> \o UsedSlots(usemask \ { CTZ64(usemask) })

PoolStep(p) ==
    /\ ~crashed
    /\ pool' = p
    /\ UNCHANGED << DeviceList, devs, ctxs, LastNullDeviceError, GlobalContext,
                    LocalContext, config, crashed, last, upd, held, clock,
                    backends, voices, race, locks >>

\* Allocation: the first sub-list with a nonzero free-mask gives its lowest
\* set bit, which is cleared; with none, a fresh sub-list is appended.
AllocObject(cap, lists) ==
    /\ ~pool.torn
    /\ pool.allocs < cap
    /\ LET avail == { k \in 1..Len(pool.SubLists) : pool.SubLists[k].FreeMask # {} }
           grown == IF avail = {} THEN Append(pool.SubLists, FreshSubList)
                    ELSE pool.SubLists
           lidx  == IF avail = {} THEN Len(grown) ELSE LowestOf(avail)
           slidx == CTZ64(grown[lidx].FreeMask)
       IN  /\ Len(grown) <= lists
           /\ PoolStep([ pool EXCEPT
                  !.SubLists = [ grown EXCEPT
                      ![lidx].FreeMask = @ \ { slidx },
                      ![lidx].Objects[slidx] = pool.allocs + 1 ],
                  !.allocs = @ + 1,
                  !.op = "alloc",
                  !.handle = HandleOf(lidx - 1, slidx) ])

\* Free of a live handle: the slot's bit is set again.
FreeObject(h) ==
    /\ ~pool.torn
    /\ LookupObject(pool, h) # NoObject
    /\ PoolStep([ pool EXCEPT
           !.SubLists[SubListOf(h) + 1].FreeMask = @ \cup { SlotOf(h) },
           !.SubLists[SubListOf(h) + 1].Objects[SlotOf(h)] = NoObject,
           !.frees = @ + 1,
           !.freed = @ \cup { h },
           !.op = "free",
           !.handle = h ])

\* ~ALCdevice_struct: the count of the buffers that were not deleted.
DestroyDevicePool ==
    /\ ~pool.torn
    /\ PoolStep([ pool EXCEPT !.torn = TRUE, !.count = LiveCount(pool),
                              !.op = "teardown", !.handle = 0 ])

\* ------------------------------------------------------- the voice block
\* ALvoice{}: a voice as value-initialization leaves it, with num_sends
\* entries in its Send[] tail. Props.Send has its fixed width.
DefaultVoice(num_sends) ==
    [ SourceID |-> 0, Playing |-> FALSE, position |-> 0,
      current_buffer |-> 0, loop_buffer |-> 0, Update |-> 0,
      PropsSend |-> [ k \in 1..MaxSendCount |-> 0 ],
      Send |-> [ k \in 1..num_sends |-> 0 ] ]

\* A context before its first AllocateVoices: Voices is null (no voice),
\* MaxVoices and VoiceCount are 0. freed counts the deletions of each
\* pending update; num_voices and num_sends are the latest call's inputs.
VoicesIdle ==
    [ Voices |-> << >>, MaxVoices |-> 0, VoiceCount |-> 0, sends |-> 0,
      freed |-> [ u \in 1..VoiceSlots |-> 0 ],
      calls |-> 0, num_voices |-> 0, num_sends |-> 0 ]

VoiceStep(v) ==
    /\ ~crashed
    /\ voices' = v
    /\ UNCHANGED << DeviceList, devs, ctxs, LastNullDeviceError, GlobalContext,
                    LocalContext, config, crashed, last, upd, held, clock,
                    backends, pool, race, locks >>

\* A variant of ExchangeUpdate that loads the pointer and leaves it.
ExchangeUpdateLoaded(old_voice) == old_voice

\* old_voice->Update.exchange(nullptr): the old voice as the copy leaves it.
ExchangeUpdate(old_voice) == [ old_voice EXCEPT !.Update = 0 ]

\* copy_voice: the new voice made from an old one, s_count sends kept.
copy_voice(old_voice, s_count, num_sends) ==
    [ DefaultVoice(num_sends) EXCEPT
        !.Update = old_voice.Update,
        !.SourceID = old_voice.SourceID,
        !.Playing = old_voice.Playing,
        !.PropsSend = [ k \in 1..MaxSendCount |->
                          IF k <= s_count THEN old_voice.PropsSend[k] ELSE 0 ],
        !.position = old_voice.position,
        !.current_buffer = old_voice.current_buffer,
        !.loop_buffer = old_voice.loop_buffer,
        !.Send = [ k \in 1..num_sends |->
                     IF k <= s_count THEN old_voice.Send[k] ELSE 0 ] ]

\* DeinitVoice over a block: every pending update still held is deleted.
DeinitVoice(freed, block) ==
    [ u \in DOMAIN freed |->
        freed[u] + Cardinality({ i \in DOMAIN block : block[i].Update = u }) ]

\* AllocateVoices(context, num_voices, old_sends) on the voice block, with
\* old_sends the send count the block was allocated for and num_sends the
\* device's send count at the call.
AllocateVoicesBlock(v, num_voices, num_sends) ==
    IF num_voices = v.MaxVoices /\ num_sends = v.sends
    THEN v
    ELSE LET v_count == mini(v.VoiceCount, num_voices)
             s_count == mini(v.sends, num_sends)
             left == [ i \in 1..v.MaxVoices |->
                         IF i <= v_count THEN ExchangeUpdate(v.Voices[i])
                                         ELSE v.Voices[i] ]
         IN  [ v EXCEPT
                 !.Voices = [ i \in 1..num_voices |->
                                IF i <= v_count
                                THEN copy_voice(v.Voices[i], s_count, num_sends)
                                ELSE DefaultVoice(num_sends) ],
                 !.freed = DeinitVoice(@, left),
                 !.MaxVoices = num_voices,
                 !.VoiceCount = mini(v.VoiceCount, num_voices),
                 !.sends = num_sends ]

\* One call of AllocateVoices on the context.
AllocateVoicesCall(num_voices, num_sends) ==
    /\ voices.calls < MaxVoiceCalls
    /\ VoiceStep([ AllocateVoicesBlock(voices, num_voices, num_sends) EXCEPT
                     !.calls = @ + 1,
                     !.num_voices = num_voices, !.num_sends = num_sends ])

\* ------------------------------------- alcCreateContext and alcCloseDevice
\* One playback device that is open and listed (the list holds its first
\* reference), a thread that calls alcCreateContext on it and a thread that
\* calls alcCloseDevice on it. ListLock and BackendLock name the caller
\* that holds them. A context's ref is 0 before it is made and after it is
\* deleted; deleted tells the two apart.
RaceIdle ==
    [ listed |-> TRUE, devRef |-> 1, LastError |-> ALC_NO_ERROR,
      NullError |-> ALC_NO_ERROR, Running |-> FALSE,
      ContextList |-> << >>,
      ctxRef |-> [ c \in 1..MaxCreates |-> 0 ],
      deleted |-> [ c \in 1..MaxCreates |-> FALSE ],
      ListLock |-> "free", BackendLock |-> "free",
      create |-> [ pc |-> "idle", ctx |-> NULL, made |-> 0, ret |-> "none" ],
      close |-> [ pc |-> "idle", ret |-> "none" ] ]

RaceStep(r) ==
    /\ ~crashed
    /\ race' = r
    /\ UNCHANGED << DeviceList, devs, ctxs, LastNullDeviceError, GlobalContext,
                    LocalContext, config, crashed, last, upd, held, clock,
                    backends, pool, voices, locks >>

\* The process dies, inside alcCreateContext, of the access it made.
RaceCrash(r) ==
    /\ ~crashed
    /\ race' = r
    /\ crashed' = TRUE
    /\ UNCHANGED << DeviceList, devs, ctxs, LastNullDeviceError, GlobalContext,
                    LocalContext, config, last, upd, held, clock,
                    backends, pool, voices, locks >>

\* ALCcontext_DecRef in the race record: the last reference deletes the
\* context, whose destructor gives its device reference back.
RaceContextDecRef(r, c) ==
    IF r.ctxRef[c] = 1
    THEN [ r EXCEPT !.ctxRef[c] = 0, !.deleted[c] = TRUE, !.devRef = @ - 1 ]
    ELSE [ r EXCEPT !.ctxRef[c] = @ - 1 ]

\* alcCreateContext: std::unique_lock listlock{ListLock}
ccListLock ==
    /\ race.create.pc = "idle" /\ race.create.made < MaxCreates
    /\ race.ListLock = "free"
    /\ RaceStep([ race EXCEPT !.ListLock = "create", !.create.pc = "verify",
                              !.create.ret = "none", !.create.ctx = NULL ])

\* A variant of ccVerify that gives ListLock back once the device is
\* verified, before BackendLock is taken.
ccVerifyUnlocksFirst ==
    /\ race.create.pc = "verify"
    /\ IF ~race.listed
       THEN RaceStep([ race EXCEPT !.ListLock = "free",
                                  !.NullError = ALC_INVALID_DEVICE,
                                  !.create.pc = "idle", !.create.ret = "null",
                                  !.create.made = @ + 1 ])
       ELSE RaceStep([ race EXCEPT !.ListLock = "free", !.devRef = @ + 1,
                                  !.create.pc = "backlock" ])

\* DeviceRef dev{VerifyDevice(device)} and the test that follows: a device
\* that is not listed makes the call unlock, record ALC_INVALID_DEVICE on
\* the null device and return null; a listed one is referenced.
ccVerify ==
    /\ race.create.pc = "verify"
    /\ IF ~race.listed
       THEN RaceStep([ race EXCEPT !.ListLock = "free",
                                  !.NullError = ALC_INVALID_DEVICE,
                                  !.create.pc = "idle", !.create.ret = "null",
                                  !.create.made = @ + 1 ])
       ELSE RaceStep([ race EXCEPT !.devRef = @ + 1, !.create.pc = "backlock" ])

\* std::unique_lock backlock{dev->BackendLock}; listlock.unlock()
ccBackendLock ==
    /\ race.create.pc = "backlock"
    /\ race.BackendLock = "free"
    /\ RaceStep([ race EXCEPT !.BackendLock = "create",
                              !.ListLock = IF @ = "create" THEN "free" ELSE @,
                              !.create.pc = "update" ])

\* LastError reset, new ALCcontext, ALCdevice_IncRef, UpdateDeviceParams
\* (ok: what it returns is ALC_NO_ERROR; its failure on a playback device
\* is ALC_INVALID_DEVICE). On failure: alcSetError, backlock.unlock(),
\* delete ALContext, return null (the DeviceRef ends).
ccUpdate(ok) ==
    /\ race.create.pc = "update"
    /\ LET c == race.create.made + 1
       IN  IF ok
           THEN RaceStep([ race EXCEPT !.LastError = ALC_NO_ERROR,
                                      !.ctxRef[c] = 1, !.devRef = @ + 1,
                                      !.Running = TRUE,
                                      !.create.ctx = c, !.create.pc = "link" ])
           ELSE RaceStep([ race EXCEPT !.LastError = ALC_INVALID_DEVICE,
                                      !.deleted[c] = TRUE,
                                      !.devRef = @ - 1,
                                      !.BackendLock = "free",
                                      !.create.pc = "idle", !.create.ret = "null",
                                      !.create.made = @ + 1 ])

\* The compare-exchange loop that pushes the context on dev->ContextList,
\* and backlock.unlock().
ccLink ==
    /\ race.create.pc = "link"
    /\ RaceStep([ race EXCEPT !.ContextList = << race.create.ctx >> \o @,
                              !.BackendLock = "free",
                              !.create.pc = "slot" ])

\* if(ALContext->DefaultSlot) ..., InitializeEffect(ALContext, ...): reads
\* and writes of the context through the plain pointer. When the context
\* was deleted they are undefined: the process dies or goes on.
ccDefaultSlot ==
    /\ race.create.pc = "slot"
    /\ LET r == [ race EXCEPT !.create.pc = "return" ]
       IN  IF race.deleted[race.create.ctx]
           THEN RaceStep(r) \/ RaceCrash(r)
           ELSE RaceStep(r)

\* return ALContext, and ~DeviceRef.
ccReturn ==
    /\ race.create.pc = "return"
    /\ RaceStep([ race EXCEPT !.devRef = @ - 1,
                              !.create.pc = "idle", !.create.ret = "context",
                              !.create.made = @ + 1 ])

\* alcCloseDevice: std::unique_lock listlock{ListLock}
clListLock ==
    /\ race.close.pc = "idle" /\ race.close.ret = "none"
    /\ race.ListLock = "free"
    /\ RaceStep([ race EXCEPT !.ListLock = "close", !.close.pc = "backlock" ])

\* The walk finds the device, a playback device;
\* std::unique_lock backlock{device->BackendLock}
clBackendLock ==
    /\ race.close.pc = "backlock"
    /\ race.BackendLock = "free"
    /\ RaceStep([ race EXCEPT !.BackendLock = "close", !.close.pc = "unlink" ])

\* The device is taken out of DeviceList; listlock.unlock()
clUnlink ==
    /\ race.close.pc = "unlink"
    /\ RaceStep([ race EXCEPT !.listed = FALSE, !.ListLock = "free",
                              !.close.pc = "release" ])

\* One turn of the loop over device->ContextList: ReleaseContext unlinks
\* the context and gives the list's reference back.
clRelease ==
    /\ race.close.pc = "release"
    /\ race.ContextList # << >>
    /\ RaceStep(RaceContextDecRef([ race EXCEPT !.ContextList = Tail(@) ],
                                  Head(race.ContextList)))

\* The end of the loop: the backend is stopped, DEVICE_RUNNING cleared,
\* backlock.unlock(), ALCdevice_DecRef(device), return ALC_TRUE.
clStop ==
    /\ race.close.pc = "release"
    /\ race.ContextList = << >>
    /\ RaceStep([ race EXCEPT !.Running = FALSE, !.BackendLock = "free",
                              !.devRef = @ - 1,
                              !.close.pc = "idle", !.close.ret = "true" ])

\* ----------------------------------------------------------- the locks
\* The locks: ListLock (recursive), BackendLock of each device, and
\* PropLock, EffectSlotLock and SourceLock of each device's context.
\* A lock is a pair of its name and the device it belongs to (0: none).
LockDevices == 1..TwoDevices
ListLock == << "ListLock", 0 >>
BackendLock(d) == << "BackendLock", d >>
PropLock(d) == << "PropLock", d >>
EffectSlotLock(d) == << "EffectSlotLock", d >>
SourceLock(d) == << "SourceLock", d >>
LockSet ==
    { ListLock } \cup
    { << n, d >> : n \in { "BackendLock", "PropLock", "EffectSlotLock", "SourceLock" },
                  d \in LockDevices }

Lock(l) == << "lock", l >>
Unlock(l) == << "unlock", l >>

\* VerifyDevice and VerifyContext: std::lock_guard over ListLock.
VerifyLocks == << Lock(ListLock), Unlock(ListLock) >>

\* UpdateDeviceParams, for the context of the device: proplock, slotlock
\* (given back), srclock (given back), and the end of proplock's scope.
UpdateDeviceParamsLocks(d) ==
    << Lock(PropLock(d)), Lock(EffectSlotLock(d)), Unlock(EffectSlotLock(d)),
       Lock(SourceLock(d)), Unlock(SourceLock(d)), Unlock(PropLock(d)) >>

\* alcCreateContext and alcResetDeviceSOFT: listlock, VerifyDevice,
\* backlock, listlock.unlock(), UpdateDeviceParams, the end of backlock.
UpdateCallLocks(d) ==
    << Lock(ListLock) >> \o VerifyLocks
    \o << Lock(BackendLock(d)), Unlock(ListLock) >>
    \o UpdateDeviceParamsLocks(d)
    \o << Unlock(BackendLock(d)) >>

\* The same calls refused: listlock, VerifyDevice, listlock.unlock().
RefusedCallLocks == << Lock(ListLock) >> \o VerifyLocks \o << Unlock(ListLock) >>

\* A variant of DestroyContextLocks that gives ListLock back after the
\* verification and takes it again under BackendLock.
DestroyContextLocksBackendFirst(d) ==
    << Lock(ListLock) >> \o VerifyLocks
    \o << Unlock(ListLock), Lock(BackendLock(d)), Lock(ListLock),
          Unlock(BackendLock(d)), Unlock(ListLock) >>

\* alcDestroyContext: listlock, VerifyContext, the lock_guard over
\* BackendLock around ReleaseContext, listlock.unlock().
DestroyContextLocks(d) ==
    << Lock(ListLock) >> \o VerifyLocks
    \o << Lock(BackendLock(d)), Unlock(BackendLock(d)), Unlock(ListLock) >>

\* alcCloseDevice: listlock, backlock, listlock.unlock(), backlock.unlock().
CloseDeviceLocks(d) ==
    << Lock(ListLock), Lock(BackendLock(d)), Unlock(ListLock),
       Unlock(BackendLock(d)) >>

\* alcDevicePauseSOFT, alcDeviceResumeSOFT, and alcGetIntegerv for a value
\* read under the lock: VerifyDevice, then a lock_guard over BackendLock.
DeviceCallLocks(d) ==
    VerifyLocks \o << Lock(BackendLock(d)), Unlock(BackendLock(d)) >>

\* alcProcessContext: VerifyContext, then ALCcontext_ProcessUpdates under
\* PropLock.
ProcessContextLocks(d) ==
    VerifyLocks \o << Lock(PropLock(d)), Unlock(PropLock(d)) >>

LockOps == { "alcCreateContext", "alcCreateContext refused",
             "alcResetDeviceSOFT", "alcDestroyContext", "alcCloseDevice",
             "alcDevicePauseSOFT", "alcDeviceResumeSOFT", "alcGetIntegerv",
             "alcProcessContext" }

\* What an API call does with the locks, in order.
LocksOf(op, d) ==
    CASE op \in { "alcCreateContext", "alcResetDeviceSOFT" } -> UpdateCallLocks(d)
      [] op = "alcCreateContext refused" -> RefusedCallLocks
      [] op = "alcDestroyContext" -> DestroyContextLocks(d)
      [] op = "alcCloseDevice" -> CloseDeviceLocks(d)
      [] op \in { "alcDevicePauseSOFT", "alcDeviceResumeSOFT", "alcGetIntegerv" }
           -> DeviceCallLocks(d)
      [] op = "alcProcessContext" -> ProcessContextLocks(d)

\* No lock is held (depth 0), no thread is inside a call. todo is what is
\* left of the thread's call.
LocksIdle ==
    [ owner |-> [ l \in LockSet |-> 0 ],
      depth |-> [ l \in LockSet |-> 0 ],
      thr |-> [ t \in Threads |-> [ op |-> "none", dev |-> 0, todo |-> << >> ] ] ]

LockStep(l) ==
    /\ ~crashed
    /\ locks' = l
    /\ UNCHANGED << DeviceList, devs, ctxs, LastNullDeviceError, GlobalContext,
                    LocalContext, config, crashed, last, upd, held, clock,
                    backends, pool, voices, race >>

\* Thread t calls op on device d (or on its context).
LockCall(t, op, d) ==
    /\ locks.thr[t].op = "none"
    /\ LockStep([ locks EXCEPT !.thr[t] = [ op |-> op, dev |-> d,
                                            todo |-> LocksOf(op, d) ] ])

\* mutex::lock: the lock is free, or it is ListLock, which is recursive,
\* and the thread holds it.
LockAcquire(t) ==
    /\ locks.thr[t].todo # << >>
    /\ LET step == Head(locks.thr[t].todo)
           l == step[2]
       IN  /\ step[1] = "lock"
           /\ \/ locks.owner[l] = 0
              \/ l = ListLock /\ locks.owner[l] = t
           /\ LockStep([ locks EXCEPT !.owner[l] = t, !.depth[l] = @ + 1,
                                      !.thr[t].todo = Tail(@) ])

\* mutex::unlock
LockRelease(t) ==
    /\ locks.thr[t].todo # << >>
    /\ LET step == Head(locks.thr[t].todo)
           l == step[2]
       IN  /\ step[1] = "unlock"
           /\ LockStep([ locks EXCEPT
                           !.owner[l] = IF locks.depth[l] = 1 THEN 0 ELSE @,
                           !.depth[l] = @ - 1,
                           !.thr[t].todo = Tail(@) ])

\* The call returns.
LockReturn(t) ==
    /\ locks.thr[t].op # "none" /\ locks.thr[t].todo = << >>
    /\ LockStep([ locks EXCEPT !.thr[t] = [ op |-> "none", dev |-> 0,
                                            todo |-> << >> ] ])

InitWithVoices(cfg, b, v) ==
    /\ DeviceList = << >>
    /\ devs = [ d \in DevIds |-> NoDevice ]
    /\ ctxs = [ c \in CtxIds |-> NoContext ]
    /\ LastNullDeviceError = ALC_NO_ERROR
    /\ GlobalContext = NULL
    /\ LocalContext = [ t \in Threads |-> NULL ]
    /\ config = cfg
    /\ crashed = FALSE
    /\ last = NoCall
    /\ upd = UpdIdle
    /\ held = NULL
    /\ clock = ClockIdle
    /\ backends = b
    /\ pool = PoolIdle
    /\ voices = v
    /\ race = RaceIdle
    /\ locks = LocksIdle

InitWithBackends(cfg, b) == InitWithVoices(cfg, b, VoicesIdle)

InitWith(cfg) == InitWithBackends(cfg, BackendsDefault)

Init == \E cfg \in Configs : InitWith(cfg)

\* The state a successful first open call leaves: what OpenDevice commits
\* from the state InitWith(cfg), the device taking the lowest id.
InitOpened(cfg, op, kind) ==
    LET d == LowestOf(DevIds)
    IN  /\ DeviceList = << d >>
        /\ devs = [ x \in DevIds |-> IF x = d THEN NewDevice(kind) ELSE NoDevice ]
        /\ ctxs = [ c \in CtxIds |-> NoContext ]
        /\ LastNullDeviceError = ALC_NO_ERROR
        /\ GlobalContext = NULL
        /\ LocalContext = [ t \in Threads |-> NULL ]
        /\ config = cfg
        /\ crashed = FALSE
        /\ last = Call(op, d, NULL, "device", "NotCalled", << "open" >>, << >>)
        /\ upd = UpdIdle
        /\ held = NULL
        /\ clock = ClockIdle
        /\ backends = DO_INITCONFIG(BackendsDefault)
        /\ pool = PoolIdle
        /\ voices = VoicesIdle
        /\ race = RaceIdle
        /\ locks = LocksIdle

\* Apply a world and the rest of an API call's outcome; b is the backend
\* selection the call leaves (a call that begins with DO_INITCONFIG may be
\* the one that runs alc_initconfig).
CommitInit(w, list, nullErr, call, b) ==
    /\ devs' = w.devs
    /\ ctxs' = w.ctxs
    /\ GlobalContext' = w.Global
    /\ LocalContext' = w.Local
    /\ DeviceList' = list
    /\ LastNullDeviceError' = nullErr
    /\ last' = call
    /\ backends' = b
    /\ UNCHANGED << config, crashed, upd, held, clock, pool, voices, race, locks >>

\* The same for a call that does not touch the backend selection.
Commit(w, list, nullErr, call) == CommitInit(w, list, nullErr, call, backends)

\* alcSetError(device, errorCode): the device's latch, or the process-wide
\* one for a null device.
SetDeviceError(w, d, code) == [ w EXCEPT !.devs[d].LastError = code ]

\* An API call that only records an error: on device d, or on the
\* process-wide latch when d is NULL.
FailWith(d, code, call) ==
    IF d = NULL THEN Commit(Here, DeviceList, code, call)
    ELSE Commit(SetDeviceError(Here, d, code), DeviceList, LastNullDeviceError, call)

\* ------------------------------------------------------------ open/close
\* alcOpenDevice needs PlaybackBackend.name, alcCaptureOpenDevice needs
\* CaptureBackend.name; the loopback backend is always there.
NoBackendFor(kind, b) ==
    \/ kind = Playback /\ b.PlaybackBackend = NoName
    \/ kind = Capture /\ b.CaptureBackend = NoName

\* A variant of OpenDevice that reports every failure of the backend's
\* open() as ALC_INVALID_DEVICE.
OpenDeviceInvalidDevice(op, kind, res, cap) ==
    /\ ~crashed
    /\ Cardinality({ d \in DevIds : devs[d].alive }) < cap
    /\ \E b \in { DO_INITCONFIG(backends) } :
       IF NoBackendFor(kind, b)
       THEN CommitInit(Here, DeviceList, ALC_INVALID_VALUE,
                       Call(op, NULL, NULL, "null", "NotCalled", << >>, << >>), b)
       ELSE IF kind # Loopback /\ res # ALC_NO_ERROR
       THEN CommitInit(Here, DeviceList, ALC_INVALID_DEVICE,
                       Call(op, NULL, NULL, "null", res, << "open failed" >>, << >>), b)
       ELSE /\ FreeDevIds # {}
            /\ LET d == LowestOf(FreeDevIds)
               IN  CommitInit([ Here EXCEPT !.devs[d] = NewDevice(kind) ],
                              << d >> \o DeviceList, LastNullDeviceError,
                              Call(op, d, NULL, "device", "NotCalled", << "open" >>, << >>),
                              b)

\* The three open functions. kind is the device kind, res what the
\* backend's open() reports (ignored for a loopback device), cap the number
\* of devices the application keeps open at a time.
OpenDevice(op, kind, res, cap) ==
    /\ ~crashed
    /\ Cardinality({ d \in DevIds : devs[d].alive }) < cap
    /\ \E b \in { DO_INITCONFIG(backends) } :
       IF NoBackendFor(kind, b)
       THEN CommitInit(Here, DeviceList, ALC_INVALID_VALUE,
                       Call(op, NULL, NULL, "null", "NotCalled", << >>, << >>), b)
       ELSE IF kind # Loopback /\ res # ALC_NO_ERROR
       THEN CommitInit(Here, DeviceList, res,
                       Call(op, NULL, NULL, "null", res, << "open failed" >>, << >>), b)
       ELSE /\ FreeDevIds # {}
            /\ LET d == LowestOf(FreeDevIds)
               IN  CommitInit([ Here EXCEPT !.devs[d] = NewDevice(kind) ],
                              << d >> \o DeviceList, LastNullDeviceError,
                              Call(op, d, NULL, "device", "NotCalled", << "open" >>, << >>),
                              b)

alcOpenDevice(res, cap) == OpenDevice("alcOpenDevice", Playback, res, cap)
alcLoopbackOpenDeviceSOFT(cap) ==
    OpenDevice("alcLoopbackOpenDeviceSOFT", Loopback, ALC_NO_ERROR, cap)

\* alcCaptureOpenDevice(name, frequency, format, samples): samples <= 0 and
\* a format DecomposeDevFormat does not know are rejected before the open,
\* after DO_INITCONFIG and the test for a capture backend.
alcCaptureOpenDevice(samples, formatKnown, res, cap) ==
    IF samples <= 0 \/ ~formatKnown
    THEN /\ ~crashed
         /\ \E b \in { DO_INITCONFIG(backends) } :
            CommitInit(Here, DeviceList,
                       IF NoBackendFor(Capture, b) \/ samples <= 0
                       THEN ALC_INVALID_VALUE ELSE ALC_INVALID_ENUM,
                       Call("alcCaptureOpenDevice", NULL, NULL, "null", "NotCalled",
                            << >>, << >>), b)
    ELSE OpenDevice("alcCaptureOpenDevice", Capture, res, cap)

\* The walk of alcCloseDevice / alcCaptureCloseDevice over the device list
\* starts by reading iter->next of the list head without testing the head:
\* with an empty list and a non-null argument that dereferences a null
\* pointer, which is undefined behaviour. The outcomes are the process dying
\* or the read yielding null (the device is then simply not found).
CloseWalkUndefined(p) == DeviceList = << >> /\ p # NULL

Crash(call) ==
    /\ crashed' = TRUE
    /\ last' = call
    /\ UNCHANGED << DeviceList, devs, ctxs, LastNullDeviceError, GlobalContext,
                    LocalContext, config, upd, held, clock, backends, pool, voices, race, locks >>

\* alcCloseDevice(device) on thread t.
alcCloseDevice(t, p) ==
    LET call(ret, calls) ==
            Call("alcCloseDevice", p, NULL, ret, "NotCalled", calls, << >>)
            @@ [ list |-> DeviceList, thread |-> t ]
        iter == VerifyDevice(p)
    IN  /\ ~crashed
        /\ \/ /\ CloseWalkUndefined(p)
              /\ Crash(call("crash", << >>))
           \/ /\ iter = NULL
              /\ FailWith(NULL, ALC_INVALID_DEVICE, call("false", << >>))
           \/ /\ iter # NULL /\ devs[p].Type = Capture
              /\ FailWith(p, ALC_INVALID_DEVICE, call("false", << >>))
           \/ /\ iter # NULL /\ devs[p].Type # Capture
              /\ LET w1 == ReleaseAllContexts(Here, devs[p].ContextList, p, t)
                     w2 == [ w1 EXCEPT !.devs[p] = StopIfRunning(@) ]
                     w3 == [ w2 EXCEPT !.devs = ALCdevice_DecRef(@, p) ]
                 IN  Commit(w3, Unlink(DeviceList, p), LastNullDeviceError,
                            call("true", StopCalls(w1.devs[p])))

\* alcCaptureCloseDevice(device)
alcCaptureCloseDevice(p) ==
    LET call(ret, calls) ==
            Call("alcCaptureCloseDevice", p, NULL, ret, "NotCalled", calls, << >>)
            @@ [ list |-> DeviceList ]
        iter == VerifyDevice(p)
    IN  /\ ~crashed
        /\ \/ /\ CloseWalkUndefined(p)
              /\ Crash(call("crash", << >>))
           \/ /\ iter = NULL
              /\ FailWith(NULL, ALC_INVALID_DEVICE, call("false", << >>))
           \/ /\ iter # NULL /\ devs[p].Type # Capture
              /\ FailWith(p, ALC_INVALID_DEVICE, call("false", << >>))
           \/ /\ iter # NULL /\ devs[p].Type = Capture
              /\ LET w2 == [ Here EXCEPT !.devs[p] = StopIfRunning(@) ]
                     w3 == [ w2 EXCEPT !.devs = ALCdevice_DecRef(@, p) ]
                 IN  Commit(w3, Unlink(DeviceList, p), LastNullDeviceError,
                            call("true", StopCalls(devs[p])))

\* ------------------------------------------------------------- contexts
\* A variant of RecordUpdateFailure that calls aluHandleDisconnect for
\* every error code.
RecordUpdateFailureAlwaysDisconnects(w, p, err) ==
    LET w1 == SetDeviceError(w, p, err)
        h  == aluHandleDisconnect(w1.devs[p], w1.ctxs)
    IN  [ w1 EXCEPT !.devs[p] = h.device, !.ctxs = h.ctxs ]

\* The callers of UpdateDeviceParams on its failure: alcSetError(dev, err),
\* and for ALC_INVALID_DEVICE aluHandleDisconnect.
RecordUpdateFailure(w, p, err) ==
    LET w1 == SetDeviceError(w, p, err)
        h  == aluHandleDisconnect(w1.devs[p], w1.ctxs)
    IN  IF err = ALC_INVALID_DEVICE
        THEN [ w1 EXCEPT !.devs[p] = h.device, !.ctxs = h.ctxs ]
        ELSE w1

\* A variant of CreateContextRefused without the test of Connected.
CreateContextRefusedIgnoringConnected(p) ==
    VerifyDevice(p) = NULL \/ devs[p].Type = Capture

\* if(!dev || dev->Type == Capture || !dev->Connected.load())
CreateContextRefused(p) ==
    VerifyDevice(p) = NULL \/ devs[p].Type = Capture \/ ~devs[p].Connected

\* alcCreateContext(device, attrList). slotInit: whether InitEffectSlot
\* succeeds for the default effect slot; cap: the number of contexts the
\* application keeps at a time.
alcCreateContext(p, attrList, env, slotInit, cap) ==
    LET call(c, ret, err, calls) ==
            Call("alcCreateContext", p, c, ret, err, calls, attrList)
        dev == VerifyDevice(p)
    IN  /\ ~crashed
        /\ IF CreateContextRefused(p)
           THEN FailWith(dev, ALC_INVALID_DEVICE, call(NULL, "null", "NotCalled", << >>))
           ELSE
             /\ Cardinality({ x \in CtxIds : ctxs[x].alive }) < cap
             /\ LET c    == LowestOf(FreeCtxIds)
                    \* LastError.store(NO_ERROR); new ALCcontext; ALCdevice_IncRef
                    ds0  == ALCdevice_IncRef([ devs EXCEPT ![p].LastError = ALC_NO_ERROR ], p)
                    cs0  == [ ctxs EXCEPT ![c] = NewContext(p) ]
                IN  \E r \in { UpdateDeviceParams(ds0[p], cs0, attrList, env) } :
                    LET w1 == World([ ds0 EXCEPT ![p] = r.device ], r.ctxs,
                                    GlobalContext, LocalContext)
                    IN  IF r.err # ALC_NO_ERROR
                        THEN LET w3 == RecordUpdateFailure(w1, p, r.err)
                                 \* delete ALContext
                                 w4 == ALCcontext_DecRef(w3, c)
                             IN  Commit(w4, DeviceList, LastNullDeviceError,
                                        call(NULL, "null", r.err, r.calls))
                        ELSE LET made == [ AllocateVoices(w1.ctxs[c], DefaultMaxVoices,
                                                          w1.devs[p].NumAuxSends,
                                                          w1.devs[p].NumAuxSends)
                                             EXCEPT !.DefaultSlot =
                                                config.DefaultEffect
                                                /\ w1.devs[p].Type = Playback /\ slotInit ]
                                 w2 == [ w1 EXCEPT !.ctxs[c] = made,
                                                   !.devs[p].ContextList = << c >> \o @ ]
                             IN  Commit(w2, DeviceList, LastNullDeviceError,
                                        call(c, "context", r.err, r.calls))

\* alcDestroyContext(context) on thread t.
alcDestroyContext(t, c) ==
    LET call(calls) ==
            Call("alcDestroyContext", NULL, c, "void", "NotCalled", calls, << >>)
            @@ [ list |-> IF VerifyContext(c) = NULL THEN << >>
                          ELSE devs[ctxs[c].Device].ContextList,
                 thread |-> t ]
    IN  /\ ~crashed
        /\ IF VerifyContext(c) = NULL
           THEN FailWith(NULL, ALC_INVALID_CONTEXT, call(<< >>))
           ELSE LET d  == ctxs[c].Device
                    r  == ReleaseContext(Here, c, d, t)
                    w1 == IF r.others THEN r.world
                          ELSE [ r.world EXCEPT !.devs[d].Running = FALSE,
                                                !.devs[d].BackendRunning = FALSE ]
                IN  Commit(w1, DeviceList, LastNullDeviceError,
                           call(IF r.others THEN << >> ELSE << "stop" >>))

\* ----------------------------------------------------- reset/pause/resume
\* alcResetDeviceSOFT(device, attribs)
alcResetDeviceSOFT(p, attrList, env) ==
    LET call(ret, err, calls) ==
            Call("alcResetDeviceSOFT", p, NULL, ret, err, calls, attrList)
            @@ [ old_sends |-> IF VerifyDevice(p) = NULL THEN 0 ELSE devs[p].NumAuxSends ]
        dev == VerifyDevice(p)
    IN  /\ ~crashed
        /\ IF dev = NULL
           THEN FailWith(NULL, ALC_INVALID_DEVICE, call("false", "NotCalled", << >>))
           ELSE IF devs[p].Type = Capture
           THEN FailWith(p, ALC_INVALID_DEVICE, call("false", "NotCalled", << >>))
           ELSE LET stopped == [ StopIfRunning(devs[p]) EXCEPT !.Connected = TRUE ]
                IN  \E r \in { UpdateDeviceParams(stopped, ctxs, attrList, env) } :
                    LET w1 == World([ devs EXCEPT ![p] = r.device ], r.ctxs,
                                    GlobalContext, LocalContext)
                        calls == StopCalls(devs[p]) \o r.calls
                    IN  IF r.err = ALC_NO_ERROR
                        THEN Commit(w1, DeviceList, LastNullDeviceError,
                                    call("true", r.err, calls))
                        ELSE Commit(RecordUpdateFailure(w1, p, r.err), DeviceList,
                                    LastNullDeviceError, call("false", r.err, calls))

\* A variant of alcDevicePauseSOFT that sets Connected again, as
\* alcResetDeviceSOFT does.
alcDevicePauseSOFTReconnects(p) ==
    LET call(calls) == Call("alcDevicePauseSOFT", p, NULL, "void", "NotCalled", calls, << >>)
        dev == VerifyDevice(p)
    IN  /\ ~crashed
        /\ IF dev = NULL \/ devs[p].Type # Playback
           THEN FailWith(dev, ALC_INVALID_DEVICE, call(<< >>))
           ELSE Commit([ Here EXCEPT !.devs[p] = [ StopIfRunning(@) EXCEPT
                                                    !.Paused = TRUE, !.Connected = TRUE ] ],
                       DeviceList, LastNullDeviceError, call(StopCalls(devs[p])))

\* alcDevicePauseSOFT(device)
alcDevicePauseSOFT(p) ==
    LET call(calls) == Call("alcDevicePauseSOFT", p, NULL, "void", "NotCalled", calls, << >>)
        dev == VerifyDevice(p)
    IN  /\ ~crashed
        /\ IF dev = NULL \/ devs[p].Type # Playback
           THEN FailWith(dev, ALC_INVALID_DEVICE, call(<< >>))
           ELSE Commit([ Here EXCEPT !.devs[p] = [ StopIfRunning(@) EXCEPT !.Paused = TRUE ] ],
                       DeviceList, LastNullDeviceError, call(StopCalls(devs[p])))

\* A variant of alcDeviceResumeSOFT that leaves DEVICE_PAUSED set when it
\* starts the backend.
alcDeviceResumeSOFTKeepsPaused(p, started) ==
    LET call(calls) == Call("alcDeviceResumeSOFT", p, NULL, "void", "NotCalled", calls, << >>)
        dev == VerifyDevice(p)
    IN  /\ ~crashed
        /\ IF dev = NULL \/ devs[p].Type # Playback
           THEN FailWith(dev, ALC_INVALID_DEVICE, call(<< >>))
           ELSE IF ~devs[p].Paused
           THEN Commit(Here, DeviceList, LastNullDeviceError, call(<< >>))
           ELSE IF devs[p].ContextList = << >>
           THEN Commit([ Here EXCEPT !.devs[p].Paused = FALSE ], DeviceList,
                       LastNullDeviceError, call(<< >>))
           ELSE Commit([ Here EXCEPT !.devs[p].Running = TRUE,
                                     !.devs[p].BackendRunning = TRUE ],
                       DeviceList, LastNullDeviceError, call(<< "start" >>))

\* alcDeviceResumeSOFT(device); started is what the backend's start() answers.
alcDeviceResumeSOFT(p, started) ==
    LET call(calls) == Call("alcDeviceResumeSOFT", p, NULL, "void", "NotCalled", calls, << >>)
        dev == VerifyDevice(p)
    IN  /\ ~crashed
        /\ IF dev = NULL \/ devs[p].Type # Playback
           THEN FailWith(dev, ALC_INVALID_DEVICE, call(<< >>))
           ELSE IF ~devs[p].Paused
           THEN Commit(Here, DeviceList, LastNullDeviceError, call(<< >>))
           ELSE IF devs[p].ContextList = << >>
           THEN Commit([ Here EXCEPT !.devs[p].Paused = FALSE ], DeviceList,
                       LastNullDeviceError, call(<< >>))
           ELSE IF ~started
           THEN LET h == aluHandleDisconnect([ devs[p] EXCEPT !.Paused = FALSE ], ctxs)
                    w == World([ devs EXCEPT ![p] = h.device ], h.ctxs,
                               GlobalContext, LocalContext)
                IN  Commit(SetDeviceError(w, p, ALC_INVALID_DEVICE), DeviceList,
                           LastNullDeviceError, call(<< "start failed" >>))
           ELSE Commit([ Here EXCEPT !.devs[p].Paused = FALSE, !.devs[p].Running = TRUE,
                                     !.devs[p].BackendRunning = TRUE ],
                       DeviceList, LastNullDeviceError, call(<< "start" >>))

\* ---------------------------------------------------------------- capture
\* alcCaptureStart(device)
alcCaptureStart(p, started) ==
    LET call(calls) == Call("alcCaptureStart", p, NULL, "void", "NotCalled", calls, << >>)
        dev == VerifyDevice(p)
    IN  /\ ~crashed
        /\ IF dev = NULL \/ devs[p].Type # Capture
           THEN FailWith(dev, ALC_INVALID_DEVICE, call(<< >>))
           ELSE IF ~devs[p].Connected
           THEN FailWith(p, ALC_INVALID_DEVICE, call(<< >>))
           ELSE IF devs[p].Running
           THEN Commit(Here, DeviceList, LastNullDeviceError, call(<< >>))
           ELSE IF started
           THEN Commit([ Here EXCEPT !.devs[p].Running = TRUE,
                                     !.devs[p].BackendRunning = TRUE ],
                       DeviceList, LastNullDeviceError, call(<< "start" >>))
           ELSE LET h == aluHandleDisconnect(devs[p], ctxs)
                    w == World([ devs EXCEPT ![p] = h.device ], h.ctxs,
                               GlobalContext, LocalContext)
                IN  Commit(SetDeviceError(w, p, ALC_INVALID_DEVICE), DeviceList,
                           LastNullDeviceError, call(<< "start failed" >>))

\* alcCaptureStop(device)
alcCaptureStop(p) ==
    LET call(calls) == Call("alcCaptureStop", p, NULL, "void", "NotCalled", calls, << >>)
        dev == VerifyDevice(p)
    IN  /\ ~crashed
        /\ IF dev = NULL \/ devs[p].Type # Capture
           THEN FailWith(dev, ALC_INVALID_DEVICE, call(<< >>))
           ELSE Commit([ Here EXCEPT !.devs[p] = StopIfRunning(@) ], DeviceList,
                       LastNullDeviceError, call(StopCalls(devs[p])))

\* A variant of alcRenderSamplesSOFT that refuses a call for no samples.
alcRenderSamplesSOFTRefusesZero(p, buffer, samples) ==
    LET call(calls) == Call("alcRenderSamplesSOFT", p, NULL, "void", "NotCalled", calls, << >>)
                       @@ [ buffer |-> buffer, samples |-> samples ]
        dev == VerifyDevice(p)
    IN  /\ ~crashed
        /\ IF dev = NULL \/ devs[p].Type # Loopback
           THEN FailWith(dev, ALC_INVALID_DEVICE, call(<< >>))
           ELSE IF samples <= 0 \/ (samples > 0 /\ buffer = NULL)
           THEN FailWith(dev, ALC_INVALID_VALUE, call(<< >>))
           ELSE Commit(Here, DeviceList, LastNullDeviceError,
                       call(<< "lock", "aluMixData", "unlock" >>))

\* alcRenderSamplesSOFT(device, buffer, samples); buffer is NULL or the
\* address of a buffer. The calls made are V0(dev->Backend,lock)(),
\* aluMixData(dev, buffer, samples) and V0(dev->Backend,unlock)().
alcRenderSamplesSOFT(p, buffer, samples) ==
    LET call(calls) == Call("alcRenderSamplesSOFT", p, NULL, "void", "NotCalled", calls, << >>)
                       @@ [ buffer |-> buffer, samples |-> samples ]
        dev == VerifyDevice(p)
    IN  /\ ~crashed
        /\ IF dev = NULL \/ devs[p].Type # Loopback
           THEN FailWith(dev, ALC_INVALID_DEVICE, call(<< >>))
           ELSE IF samples < 0 \/ (samples > 0 /\ buffer = NULL)
           THEN FailWith(dev, ALC_INVALID_VALUE, call(<< >>))
           ELSE Commit(Here, DeviceList, LastNullDeviceError,
                       call(<< "lock", "aluMixData", "unlock" >>))

\* ----------------------------------------------------------------- queries
\* A variant of alcGetError that loads the latch without clearing it.
alcGetErrorLoadOnly(p) ==
    LET dev == VerifyDevice(p)
        code == IF dev # NULL THEN devs[p].LastError ELSE LastNullDeviceError
        call == Call("alcGetError", p, NULL, code, "NotCalled", << >>, << >>)
    IN  /\ ~crashed
        /\ FailWith(dev, code, call)

\* alcGetError(device): exchange the latch with ALC_NO_ERROR.
alcGetError(p) ==
    LET dev == VerifyDevice(p)
        code == IF dev # NULL THEN devs[p].LastError ELSE LastNullDeviceError
        call == Call("alcGetError", p, NULL, code, "NotCalled", << >>, << >>)
    IN  /\ ~crashed
        /\ FailWith(dev, ALC_NO_ERROR, call)

\* alcGetIntegerv(device, ALC_CONNECTED, 1, values): the value stored, "none"
\* when nothing is stored (a null device has no ALC_CONNECTED).
alcGetIntegerv_CONNECTED(p) ==
    LET dev == VerifyDevice(p)
        call(ret) == Call("alcGetIntegerv", p, NULL, ret, "NotCalled", << >>, << >>)
    IN  /\ ~crashed
        /\ IF dev = NULL
           THEN FailWith(NULL, ALC_INVALID_ENUM, call("none"))
           ELSE Commit(Here, DeviceList, LastNullDeviceError,
                       call(IF devs[p].Connected THEN "1" ELSE "0"))

\* ---------------------------------------------------- current contexts
\* alcGetCurrentContext() on thread t. The context returned is the record's
\* ctx.
alcGetCurrentContext(t) ==
    LET Context == IF LocalContext[t] # NULL THEN LocalContext[t] ELSE GlobalContext
    IN  /\ ~crashed
        /\ Commit(Here, DeviceList, LastNullDeviceError,
                  Call("alcGetCurrentContext", NULL, Context,
                       IF Context = NULL THEN "null" ELSE "context",
                       "NotCalled", << >>, << >>) @@ [ thread |-> t ])

\* A variant of alcMakeContextCurrent that leaves the thread-local context
\* of the calling thread in place.
alcMakeContextCurrentKeepsLocal(t, c) ==
    LET call(ret) == Call("alcMakeContextCurrent", NULL, c, ret, "NotCalled", << >>, << >>)
                     @@ [ thread |-> t ]
    IN  /\ ~crashed
        /\ IF c # NULL /\ VerifyContext(c) = NULL
           THEN FailWith(NULL, ALC_INVALID_CONTEXT, call("false"))
           ELSE LET w0 == IF c = NULL THEN Here ELSE ALCcontext_IncRef(Here, c)
                    w1 == ContextRefReset([ w0 EXCEPT !.Global = c ], GlobalContext)
                IN  Commit(w1, DeviceList, LastNullDeviceError, call("true"))

\* alcMakeContextCurrent(context) on thread t: the reference VerifyContext
\* took goes into GlobalContext, the reference GlobalContext held is given
\* back, then the thread-local context is cleared and its reference given
\* back.
alcMakeContextCurrent(t, c) ==
    LET call(ret) == Call("alcMakeContextCurrent", NULL, c, ret, "NotCalled", << >>, << >>)
                     @@ [ thread |-> t ]
    IN  /\ ~crashed
        /\ IF c # NULL /\ VerifyContext(c) = NULL
           THEN FailWith(NULL, ALC_INVALID_CONTEXT, call("false"))
           ELSE LET w0 == IF c = NULL THEN Here ELSE ALCcontext_IncRef(Here, c)
                    w1 == ContextRefReset([ w0 EXCEPT !.Global = c ], GlobalContext)
                    w2 == ContextRefReset([ w1 EXCEPT !.Local[t] = NULL ], LocalContext[t])
                IN  Commit(w2, DeviceList, LastNullDeviceError, call("true"))

\* alcSetThreadContext(context) on thread t.
alcSetThreadContext(t, c) ==
    LET call(ret) == Call("alcSetThreadContext", NULL, c, ret, "NotCalled", << >>, << >>)
                     @@ [ thread |-> t ]
    IN  /\ ~crashed
        /\ IF c # NULL /\ VerifyContext(c) = NULL
           THEN FailWith(NULL, ALC_INVALID_CONTEXT, call("false"))
           ELSE LET w0 == IF c = NULL THEN Here ELSE ALCcontext_IncRef(Here, c)
                    w1 == ContextRefReset([ w0 EXCEPT !.Local[t] = c ], LocalContext[t])
                IN  Commit(w1, DeviceList, LastNullDeviceError, call("true"))

\* Thread t ends with a thread-local context set: ~ThreadCtx calls
\* ReleaseThreadCtx and clears the slot (which the next thread to run as t
\* finds empty).
ThreadExit(t) ==
    /\ ~crashed /\ LocalContext[t] # NULL
    /\ Commit(ReleaseThreadCtx([ Here EXCEPT !.Local[t] = NULL ], LocalContext[t]),
              DeviceList, LastNullDeviceError,
              Call("ThreadExit", NULL, LocalContext[t], "void", "NotCalled", << >>, << >>)
              @@ [ thread |-> t ])

\* ------------------------------------------------------ device references
\* An API call on a device starts with DeviceRef dev{VerifyDevice(device)}
\* and drops that reference when it returns. The two actions below are the
\* two ends of such a call made by a thread of its own, so that the other
\* calls run while the reference is held.
\* VerifyDevice(p): a new reference to p when p is in the device list.
VerifyDeviceRef(p) ==
    LET dev == VerifyDevice(p)
        call(ret) == Call("VerifyDevice", p, NULL, ret, "NotCalled", << >>, << >>)
    IN  /\ ~crashed /\ held = NULL
        /\ devs' = IF dev = NULL THEN devs ELSE ALCdevice_IncRef(devs, p)
        /\ held' = dev
        /\ last' = call(IF dev = NULL THEN "null" ELSE "device")
        /\ UNCHANGED << DeviceList, ctxs, LastNullDeviceError, GlobalContext,
                        LocalContext, config, crashed, upd, clock, backends, pool, voices, race, locks >>

\* DeviceRef::reset(), run by ~DeviceRef: ALCdevice_DecRef(mDev).
DeviceRefReset ==
    /\ ~crashed /\ held # NULL
    /\ devs' = ALCdevice_DecRef(devs, held)
    /\ held' = NULL
    /\ last' = Call("DeviceRef::reset", held, NULL, "void", "NotCalled", << >>, << >>)
    /\ UNCHANGED << DeviceList, ctxs, LastNullDeviceError, GlobalContext,
                    LocalContext, config, crashed, upd, clock, backends, pool, voices, race, locks >>

\* ------------------------------------------------- the other components
\* The backend of a running device loses its endpoint and reports it.
BackendDisconnect(d) ==
    /\ ~crashed
    /\ devs[d].alive /\ devs[d].BackendRunning /\ devs[d].Connected
    /\ LET h == aluHandleDisconnect(devs[d], ctxs)
       IN  Commit(World([ devs EXCEPT ![d] = h.device ], h.ctxs, GlobalContext, LocalContext),
                  DeviceList, LastNullDeviceError,
                  Call("BackendDisconnect", d, NULL, "void", "NotCalled", << >>, << >>))

\* A context's event thread takes one event from the ring.
EventThread(c) ==
    /\ ~crashed
    /\ ctxs[c].alive /\ ctxs[c].AsyncEvents > 0
    /\ Commit([ Here EXCEPT !.ctxs[c].AsyncEvents = @ - 1 ], DeviceList,
              LastNullDeviceError,
              Call("EventThread", NULL, c, "void", "NotCalled", << >>, << >>))

\* alGenSources(1, &id) in context c: a new source has one send per
\* auxiliary send of the device, none of them routed to a slot.
alGenSources(c) ==
    /\ ~crashed
    /\ VerifyContext(c) # NULL
    /\ Len(ctxs[c].Sources) < MaxSources
    /\ Commit([ Here EXCEPT !.ctxs[c].Sources =
                   Append(@, [ i \in 1..devs[ctxs[c].Device].NumAuxSends |-> SendInit ]) ],
              DeviceList, LastNullDeviceError,
              Call("alGenSources", NULL, c, "void", "NotCalled", << >>, << >>))

\* alSource3i(source, AL_AUXILIARY_SEND_FILTER, slot, send, filter) in
\* context c: send i of source s is routed to the slot (NULL: to none) with
\* the filter's gains; the new slot gains a reference and the slot the send
\* had loses one.
alSource3i(c, s, i, slot, gain) ==
    /\ ~crashed
    /\ VerifyContext(c) # NULL
    /\ s \in 1..Len(ctxs[c].Sources)
    /\ i \in 1..Len(ctxs[c].Sources[s])
    /\ LET old  == ctxs[c].Sources[s][i].Slot
           inc  == IF slot # NULL THEN [ ctxs[c].SlotRef EXCEPT ![slot] = @ + 1 ]
                   ELSE ctxs[c].SlotRef
           refs == IF old # NULL THEN [ inc EXCEPT ![old] = @ - 1 ] ELSE inc
       IN  Commit([ Here EXCEPT !.ctxs[c].SlotRef = refs,
                                !.ctxs[c].Sources[s][i] = [ Slot |-> slot, Gain |-> gain ] ],
                  DeviceList, LastNullDeviceError,
                  Call("alSource3i", NULL, c, "void", "NotCalled", << >>, << >>))

\* ------------------------------------------------------ deferred updates
UpdStep(u) ==
    /\ ~crashed
    /\ upd' = u
    /\ UNCHANGED << DeviceList, devs, ctxs, LastNullDeviceError, GlobalContext,
                    LocalContext, config, crashed, last, held, clock, backends, pool, voices, race, locks >>

\* pc is the position of a thread inside ALCcontext_ProcessUpdates, pc2 that
\* of a second thread that calls it ("lock": blocked at the lock_guard).
\* PropLock is held by the thread whose position is inside the function.
OtherOutside == upd.pc2 \in { "idle", "lock" }

\* ALCcontext_DeferUpdates(context)
ALCcontext_DeferUpdates ==
    /\ upd.pc = "idle" /\ ~upd.DeferUpdates /\ upd.batch < MaxBatches
    /\ UpdStep([ upd EXCEPT !.DeferUpdates = TRUE, !.batch = @ + 1 ])

\* A property setter called while updates are deferred: the new value stays
\* in the entity and its PropsClean flag is cleared.
SetProperty(e) ==
    /\ upd.pc = "idle" /\ OtherOutside /\ upd.DeferUpdates
    /\ UpdStep([ upd EXCEPT !.value[e] = upd.batch, !.PropsClean[e] = FALSE,
                            !.mutated[upd.batch] = @ \cup { e } ])

\* ALCcontext_ProcessUpdates(context), one step per atomic access.
\* if(context->DeferUpdates.exchange(false))
puExchange ==
    /\ upd.pc = "idle" /\ OtherOutside
    /\ UpdStep([ upd EXCEPT !.DeferUpdates = FALSE,
                            !.pc = IF upd.DeferUpdates THEN "hold" ELSE "return" ])

\* The return of a call that found DeferUpdates false.
puReturn ==
    /\ upd.pc = "return"
    /\ UpdStep([ upd EXCEPT !.pc = "idle" ])

\* A variant of puHold that leaves HoldUpdates alone.
puHoldSkipped ==
    /\ upd.pc = "hold"
    /\ UpdStep([ upd EXCEPT !.pc = "wait" ])

\* context->HoldUpdates.store(AL_TRUE)
puHold ==
    /\ upd.pc = "hold"
    /\ UpdStep([ upd EXCEPT !.HoldUpdates = TRUE, !.pc = "wait" ])

\* A variant of puWait that does not wait for the mixer's pass to end.
puWaitSkipped ==
    /\ upd.pc = "wait"
    /\ UpdStep([ upd EXCEPT !.pc = Entities[1] ])

\* while((context->UpdateCount.load()&1) != 0) yield();
puWait ==
    /\ upd.pc = "wait"
    /\ upd.UpdateCount % 2 = 0
    /\ UpdStep([ upd EXCEPT !.pc = Entities[1] ])

\* A variant of puUpdateProps that reads the flag with test() and leaves it.
puUpdatePropsFlagKept(i) ==
    LET e == Entities[i]
        to == IF i < Len(Entities) THEN Entities[i + 1] ELSE "release"
    IN  /\ upd.pc = e
        /\ UpdStep([ upd EXCEPT !.Update[e] = IF upd.PropsClean[e] THEN @ ELSE upd.value[e],
                                !.pc = to ])

\* if(!PropsClean.test_and_set()) Update...Props(context), for the context,
\* the listener, the effect slots and the sources in turn.
puUpdateProps(i) ==
    LET e == Entities[i]
        to == IF i < Len(Entities) THEN Entities[i + 1] ELSE "release"
    IN  /\ upd.pc = e
        /\ UpdStep([ upd EXCEPT !.PropsClean[e] = TRUE,
                                !.Update[e] = IF upd.PropsClean[e] THEN @ ELSE upd.value[e],
                                !.pc = to ])

\* context->HoldUpdates.store(AL_FALSE)
puRelease ==
    /\ upd.pc = "release"
    /\ UpdStep([ upd EXCEPT !.HoldUpdates = FALSE, !.pc = "idle" ])

\* The mixer thread's pass over the context: UpdateCount made odd, the
\* published updates taken one entity after the other unless HoldUpdates is
\* set, UpdateCount made even.
mxBegin ==
    /\ upd.mixer = "idle" /\ upd.UpdateCount < 2 * MaxMixerPasses
    /\ UpdStep([ upd EXCEPT !.UpdateCount = @ + 1, !.mixer = "check" ])

\* mxBegin for a mixer that goes on for ever: UpdateCount is kept modulo
\* 2 * MaxMixerPasses, which keeps its parity.
mxBeginAgain ==
    /\ upd.mixer = "idle"
    /\ UpdStep([ upd EXCEPT !.UpdateCount = (@ + 1) % (2 * MaxMixerPasses),
                            !.mixer = "check" ])

\* A variant of mxCheck that waits, inside its pass, for HoldUpdates to be
\* cleared.
mxCheckWaitsForRelease ==
    /\ upd.mixer = "check"
    /\ ~upd.HoldUpdates
    /\ UpdStep([ upd EXCEPT !.mixer = "apply", !.next = 1 ])

mxCheck ==
    /\ upd.mixer = "check"
    /\ UpdStep([ upd EXCEPT !.mixer = IF upd.HoldUpdates THEN "end" ELSE "apply",
                            !.next = 1 ])

mxApply ==
    LET e == Entities[upd.next]
    IN  /\ upd.mixer = "apply"
        /\ UpdStep([ upd EXCEPT !.applied[e] = IF upd.Update[e] # 0 THEN upd.Update[e] ELSE @,
                                !.Update[e] = 0,
                                !.next = IF upd.next < Len(Entities) THEN @ + 1 ELSE 1,
                                !.mixer = IF upd.next < Len(Entities) THEN "apply" ELSE "end" ])

mxEnd ==
    /\ upd.mixer = "end"
    /\ UpdStep([ upd EXCEPT !.UpdateCount = @ + 1, !.mixer = "idle" ])

\* The steps of ALCcontext_ProcessUpdates but its wait, and the steps of a
\* mixer pass that has begun.
puSteps ==
    \/ puExchange \/ puReturn \/ puHold \/ puRelease
    \/ \E i \in 1..Len(Entities) : puUpdateProps(i)
mxSteps == mxCheck \/ mxApply \/ mxEnd

\* ------------------------------------------------------- the device clock
\* duration_cast<nanoseconds>(seconds{s})
SecondsToNanos(s) == s * NanosPerSecond

\* The value of ALC_DEVICE_CLOCK_SOFT for a pair read at a frequency.
ClockValueOf(basecount, samplecount, Frequency) ==
    SecondsToNanos(samplecount) \div Frequency + basecount

ClkStep(c) ==
    /\ ~crashed
    /\ clock' = c
    /\ UNCHANGED << DeviceList, devs, ctxs, LastNullDeviceError, GlobalContext,
                    LocalContext, config, crashed, last, upd, held, backends, pool, voices, race, locks >>

\* A write of the pair by a writer: what the device has had since the query
\* began is remembered.
ClkWrite(c) ==
    ClkStep([ c EXCEPT !.seen = IF clock.reader = "idle" THEN {}
                                ELSE @ \cup { << c.ClockBase, c.SamplesDone >> } ])

WriterInside == clock.mixer # "idle" \/ clock.ucb # "idle"

\* ClockBase and SamplesDone are plain fields: a read that runs while a
\* writer is inside its bracket races with the write and may be torn.
TornRead == 0 - 1
ReadOf(v) == IF WriterInside THEN { v, TornRead } ELSE { v }

\* The mixer's pass over the device: IncrementRef(&device->MixCount), the
\* samples mixed are added to SamplesDone, whole seconds are moved to
\* ClockBase, IncrementRef(&device->MixCount). The backend runs the mixer
\* only between start and stop, which UpdateDeviceParams brackets its work
\* with.
mixIncrementBefore ==
    /\ clock.mixer = "idle" /\ clock.ucb = "idle" /\ clock.writes < MaxClockWrites
    /\ ClkStep([ clock EXCEPT !.MixCount = @ + 1, !.mixer = "samples",
                              !.writes = @ + 1 ])

mixSamplesDone ==
    /\ clock.mixer = "samples"
    /\ ClkWrite([ clock EXCEPT !.SamplesDone = @ + 1, !.mixer = "base" ])

mixClockBase ==
    /\ clock.mixer = "base"
    /\ ClkWrite([ clock EXCEPT !.ClockBase = @ + SecondsToNanos(clock.SamplesDone \div clock.Frequency),
                               !.mixer = "wrap" ])

mixSamplesWrap ==
    /\ clock.mixer = "wrap"
    /\ ClkWrite([ clock EXCEPT !.SamplesDone = @ % clock.Frequency, !.mixer = "after" ])

mixIncrementAfter ==
    /\ clock.mixer = "after"
    /\ ClkStep([ clock EXCEPT !.MixCount = @ + 1, !.mixer = "idle" ])

\* UpdateClockBase(device) as a whole: the two increments of MixCount
\* around the folding of SamplesDone into ClockBase.
UpdateClockBase(c) ==
    [ c EXCEPT !.MixCount = @ + 2,
               !.ClockBase = @ + SecondsToNanos(c.SamplesDone) \div c.Frequency,
               !.SamplesDone = 0 ]

\* A variant of UpdateDeviceParamsClock that stores the requested frequency
\* before it updates the clock base.
UpdateDeviceParamsClockFrequencyFirst(running, given, freq, backendFreq) ==
    /\ clock.mixer = "idle" /\ clock.ucb = "idle" /\ clock.BackendLock = "free"
    /\ clock.updates < MaxClockWrites
    /\ LET c1 == IF given THEN [ clock EXCEPT !.Frequency = freq ] ELSE clock
           c2 == IF given THEN UpdateClockBase(c1) ELSE c1
           c3 == [ UpdateClockBase(c2) EXCEPT !.Frequency = backendFreq ]
       IN  ClkStep([ (IF ~given /\ running THEN clock ELSE c3)
                        EXCEPT !.updates = @ + 1 ])

\* What UpdateDeviceParams does to the clock. With attributes: the backend
\* is stopped, UpdateClockBase, the requested frequency is stored. Without,
\* a running device makes it return. Then UpdateClockBase again, and the
\* backend's reset leaves the frequency it could get.
UpdateDeviceParamsClock(running, given, freq, backendFreq) ==
    /\ clock.mixer = "idle" /\ clock.ucb = "idle" /\ clock.BackendLock = "free"
    /\ clock.updates < MaxClockWrites
    /\ LET c1 == IF given THEN UpdateClockBase(clock) ELSE clock
           c2 == IF given THEN [ c1 EXCEPT !.Frequency = freq ] ELSE c1
           c3 == [ UpdateClockBase(c2) EXCEPT !.Frequency = backendFreq ]
       IN  ClkStep([ (IF ~given /\ running THEN clock ELSE c3)
                        EXCEPT !.updates = @ + 1 ])

\* UpdateClockBase(device) step by step, called by UpdateDeviceParams with
\* the backend lock held and the mixer stopped.
\* IncrementRef(&device->MixCount)
ucbIncrementBefore ==
    /\ clock.ucb = "idle" /\ clock.mixer = "idle" /\ clock.BackendLock = "free"
    /\ clock.writes < MaxClockWrites
    /\ ClkStep([ clock EXCEPT !.BackendLock = "update", !.MixCount = @ + 1,
                              !.ucb = "base", !.writes = @ + 1 ])

\* device->ClockBase += seconds{device->SamplesDone} / device->Frequency
ucbClockBase ==
    /\ clock.ucb = "base"
    /\ ClkWrite([ clock EXCEPT
           !.ClockBase = @ + SecondsToNanos(clock.SamplesDone) \div clock.Frequency,
           !.ucb = "samples" ])

\* device->SamplesDone = 0
ucbSamplesDone ==
    /\ clock.ucb = "samples"
    /\ ClkWrite([ clock EXCEPT !.SamplesDone = 0, !.ucb = "after" ])

\* IncrementRef(&device->MixCount), and the caller's return.
ucbIncrementAfter ==
    /\ clock.ucb = "after"
    /\ ClkStep([ clock EXCEPT !.MixCount = @ + 1, !.ucb = "idle", !.BackendLock = "free" ])

\* alcGetInteger64vSOFT(device, ALC_DEVICE_CLOCK_SOFT, 1, values), one step
\* per access. std::lock_guard<std::mutex> _{dev->BackendLock}
rdLock ==
    /\ clock.reader = "idle" /\ clock.BackendLock = "free"
    /\ ClkStep([ clock EXCEPT !.BackendLock = "reader", !.reader = "spin",
                              !.retried = FALSE,
                              !.seen = { << clock.ClockBase, clock.SamplesDone >> } ])

\* while(((refcount=ReadRef(&dev->MixCount))&1) != 0) yield();
rdSpin ==
    /\ clock.reader = "spin"
    /\ ClkStep([ clock EXCEPT !.refcount = clock.MixCount,
                              !.reader = IF clock.MixCount % 2 # 0 THEN "spin" ELSE "base" ])

\* basecount = dev->ClockBase
rdClockBase ==
    /\ clock.reader = "base"
    /\ \E v \in ReadOf(clock.ClockBase) :
          ClkStep([ clock EXCEPT !.basecount = v, !.reader = "samples" ])

\* samplecount = dev->SamplesDone
rdSamplesDone ==
    /\ clock.reader = "samples"
    /\ \E v \in ReadOf(clock.SamplesDone) :
          ClkStep([ clock EXCEPT !.samplecount = v, !.reader = "check" ])

\* A variant of rdCheck that takes the pair without reading MixCount again.
rdCheckSkipped ==
    /\ clock.reader = "check"
    /\ ClkStep([ clock EXCEPT !.reader = "done" ])

\* } while(refcount != ReadRef(&dev->MixCount));
rdCheck ==
    /\ clock.reader = "check"
    /\ ClkStep([ clock EXCEPT !.reader = IF clock.refcount # clock.MixCount
                                         THEN "spin" ELSE "done",
                              !.retried = @ \/ clock.refcount # clock.MixCount ])

\* *values = samplecount/Frequency + basecount, and the lock is released.
rdReturn ==
    /\ clock.reader = "done"
    /\ ClkStep([ clock EXCEPT !.reader = "idle", !.BackendLock = "free",
                              !.refcount = 0, !.basecount = 0, !.samplecount = 0,
                              !.retried = FALSE, !.seen = {} ])

Pointers == DevIds \cup { NULL }
CtxPointers == CtxIds \cup { NULL }

\* ------------------------------------------------------- specifications
\* Spec: an application that keeps one device of any kind open at a time,
\* creates and destroys a context on it, resets, pauses and resumes, captures
\* and reads errors, against a backend that may fail or lose its endpoint.
CaptureSamples == { 0, 1024 }

Next ==
    \/ \E res \in BackendOpenResults : alcOpenDevice(res, SingleDevice)
    \/ \E n \in CaptureSamples, known \in BOOLEAN, res \in BackendOpenResults :
          alcCaptureOpenDevice(n, known, res, SingleDevice)
    \/ alcLoopbackOpenDeviceSOFT(SingleDevice)
    \/ \E t \in Threads, p \in Pointers : alcCloseDevice(t, p)
    \/ \E p \in Pointers : alcCaptureCloseDevice(p)
    \/ \E p \in Pointers, a \in LifecycleAttrLists, env \in BackendEnvs :
          alcCreateContext(p, a, env, TRUE, SingleContext)
    \/ \E t \in Threads, c \in CtxPointers : alcDestroyContext(t, c)
    \/ \E p \in Pointers, a \in LifecycleAttrLists, env \in BackendEnvs :
          alcResetDeviceSOFT(p, a, env)
    \/ \E p \in Pointers : alcDevicePauseSOFT(p)
    \/ \E p \in Pointers, started \in BOOLEAN : alcDeviceResumeSOFT(p, started)
    \/ \E p \in Pointers, started \in BOOLEAN : alcCaptureStart(p, started)
    \/ \E p \in Pointers : alcCaptureStop(p)
    \/ \E p \in Pointers : alcGetError(p)
    \/ \E p \in Pointers : alcGetIntegerv_CONNECTED(p)
    \/ \E d \in DevIds : BackendDisconnect(d)
    \/ \E c \in CtxIds : EventThread(c)

Spec == Init /\ [][Next]_vars

\* SpecList: an application with two devices open, of any kinds, and no
\* contexts, raising and reading errors on them.
InitList == InitWith([ DefaultEffect |-> FALSE ])

NextList ==
    \/ \E res \in BackendOpenResults : alcOpenDevice(res, TwoDevices)
    \/ alcCaptureOpenDevice(1024, TRUE, ALC_NO_ERROR, TwoDevices)
    \/ alcLoopbackOpenDeviceSOFT(TwoDevices)
    \/ \E t \in Threads, p \in Pointers : alcCloseDevice(t, p)
    \/ \E p \in Pointers : alcCaptureCloseDevice(p)
    \/ \E p \in Pointers, env \in { EnvOK, EnvResetFails } :
          alcResetDeviceSOFT(p, AttrEmpty, env)
    \/ \E p \in Pointers : alcDevicePauseSOFT(p)
    \/ \E p \in Pointers : alcGetError(p)

SpecList == InitList /\ [][NextList]_vars

\* SpecUpdate: an application that has opened a playback or a loopback
\* device and keeps up to TwoContexts contexts with sources on it: it
\* creates contexts and resets the device with every attribute list of
\* UpdateAttrLists while the backend, the effect states and the renderer
\* answer in every way of UpdateEnvs, and pauses and resumes the device.
NextUpdate ==
    \/ \E p \in SeqToSet(DeviceList), a \in UpdateAttrLists, env \in UpdateEnvs :
          alcCreateContext(p, a, env, TRUE, TwoContexts)
    \/ \E p \in SeqToSet(DeviceList), a \in UpdateAttrLists, env \in UpdateEnvs :
          alcResetDeviceSOFT(p, a, env)
    \/ \E p \in SeqToSet(DeviceList) : alcDevicePauseSOFT(p)
    \/ \E p \in SeqToSet(DeviceList) : alcDeviceResumeSOFT(p, TRUE)
    \/ \E c \in CtxIds : alGenSources(c)

InitUpdate ==
    \/ InitOpened([ DefaultEffect |-> TRUE ], "alcOpenDevice", Playback)
    \/ InitOpened([ DefaultEffect |-> TRUE ], "alcLoopbackOpenDeviceSOFT", Loopback)

SpecUpdate == InitUpdate /\ [][NextUpdate]_vars

\* SpecAttrs: an application with one loopback device that resets it and
\* creates a context on it with every attribute list of AttrSpace.
NextAttrs ==
    \/ alcLoopbackOpenDeviceSOFT(SingleDevice)
    \/ \E p \in SeqToSet(DeviceList), a \in CreateAttrLists :
          alcCreateContext(p, a, EnvOK, TRUE, SingleContext)
    \/ \E t \in Threads, c \in CtxIds : alcDestroyContext(t, c)
    \/ \E p \in SeqToSet(DeviceList), a \in AttrSpace :
          alcResetDeviceSOFT(p, a, EnvOK)

SpecAttrs == InitList /\ [][NextAttrs]_vars

\* A property setter of a source that has no voice: the new value stays in
\* the source and its PropsClean flag is cleared, deferred or not.
SetIdleSourceProperty ==
    /\ upd.pc = "idle" /\ OtherOutside
    /\ UpdStep([ upd EXCEPT !.IdlePropsClean = FALSE ])

\* A property setter called while updates are not deferred, for the context,
\* the listener, an effect slot or a source with a voice: the value is
\* published at once, as a batch of its own, and PropsClean stays set.
SetPropertyDirect(e) ==
    /\ upd.pc = "idle" /\ OtherOutside /\ ~upd.DeferUpdates /\ upd.batch < MaxBatches
    /\ UpdStep([ upd EXCEPT !.batch = @ + 1, !.value[e] = upd.batch + 1,
                            !.Update[e] = upd.batch + 1,
                            !.mutated[upd.batch + 1] = { e } ])

\* A variant of UpdateAllSourceProps that visits every source.
UpdateAllSourcePropsEverySource(u) ==
    [ u EXCEPT !.Update["sources"] = IF u.PropsClean["sources"] THEN @ ELSE u.value["sources"],
               !.PropsClean["sources"] = TRUE, !.IdlePropsClean = TRUE ]

\* UpdateAllSourceProps(context): the sources that play on a voice are
\* published again if their PropsClean flag was clear.
UpdateAllSourceProps(u) ==
    [ u EXCEPT !.Update["sources"] = IF u.PropsClean["sources"] THEN @ ELSE u.value["sources"],
               !.PropsClean["sources"] = TRUE ]

\* The part of UpdateDeviceParams that goes over the context, the mixer
\* being stopped: source->PropsClean.clear() for every live source, the
\* context's and the listener's PropsClean set and their properties
\* published, UpdateAllSourceProps.
udContextProps ==
    /\ upd.pc = "idle" /\ OtherOutside /\ upd.mixer = "idle"
    /\ UpdStep(UpdateAllSourceProps(
           [ upd EXCEPT !.IdlePropsClean = FALSE,
                        !.PropsClean = [ e \in EntitySet |->
                              IF e = "sources" THEN FALSE
                              ELSE IF e = "slots" THEN @[e] ELSE TRUE ],
                        !.Update = [ e \in EntitySet |->
                              IF e \in { "context", "listener", "slots" }
                              THEN upd.value[e] ELSE @[e] ] ]))

\* SpecDefer: an application thread that defers updates on a context, sets
\* properties and calls ALCcontext_ProcessUpdates, against the mixer thread.
NextDefer ==
    \/ ALCcontext_DeferUpdates
    \/ \E e \in EntitySet : SetProperty(e)
    \/ puExchange
    \/ puReturn
    \/ puHold
    \/ puWait
    \/ \E i \in 1..Len(Entities) : puUpdateProps(i)
    \/ puRelease
    \/ mxBegin
    \/ mxCheck
    \/ mxApply
    \/ mxEnd

SpecDefer == InitList /\ [][NextDefer]_vars

\* ================================================================ claims
\* What the last call was about.
UpdateCallers == { "alcResetDeviceSOFT", "alcCreateContext" }
UpdateRan == last.op \in UpdateCallers /\ last.err # "NotCalled"
HasKey(attrList, key) == \E i \in 1..Len(attrList) : attrList[i][1] = key
Parsed(attrList) == ParseAttrs(attrList, 1, AttrDefaults(0))

\* A list that gives a frequency >= MIN_OUTPUT_RATE, a valid channel
\* configuration other than B-format, a valid sample type, and no ambisonic
\* attribute.
PlainLoopbackFormat(attrList) ==
    /\ HasKey(attrList, ALC_FREQUENCY) /\ Parsed(attrList).freq >= MIN_OUTPUT_RATE
    /\ Parsed(attrList).schans \in { ALC_MONO_SOFT, ALC_STEREO_SOFT, ALC_QUAD_SOFT,
                                     ALC_5POINT1_SOFT, ALC_6POINT1_SOFT, ALC_7POINT1_SOFT }
    /\ Parsed(attrList).stype \in { ALC_BYTE_SOFT, ALC_UNSIGNED_BYTE_SOFT, ALC_SHORT_SOFT,
                                    ALC_UNSIGNED_SHORT_SOFT, ALC_INT_SOFT,
                                    ALC_UNSIGNED_INT_SOFT, ALC_FLOAT_SOFT }
    /\ ~HasKey(attrList, ALC_AMBISONIC_LAYOUT_SOFT)
    /\ ~HasKey(attrList, ALC_AMBISONIC_SCALING_SOFT)
    /\ ~HasKey(attrList, ALC_AMBISONIC_ORDER_SOFT)

\* C1: on a loopback device, UpdateDeviceParams, reached through
\* alcResetDeviceSOFT or alcCreateContext, does not return InvalidValue for a
\* list that gives a frequency >= MIN_OUTPUT_RATE, a valid non-B-format
\* channel configuration and a valid sample type and no ambisonic attribute.
C1_PlainFormatAccepted ==
    (/\ UpdateRan
     /\ devs[last.dev].Type = Loopback
     /\ PlainLoopbackFormat(last.attrs))
    => last.err # ALC_INVALID_VALUE

\* C1, the failing input: alcResetDeviceSOFT on a loopback device with
\* [FREQUENCY=44100, FORMAT_CHANNELS_SOFT=STEREO, FORMAT_TYPE_SOFT=FLOAT, 0]
\* has returned false with InvalidValue.
C1_PlainFormatRejected ==
    /\ last.op = "alcResetDeviceSOFT" /\ last.attrs = AttrStereo
    /\ devs[last.dev].Type = Loopback
    /\ last.ret = "false" /\ last.err = ALC_INVALID_VALUE
    /\ devs[last.dev].LastError = ALC_INVALID_VALUE

\* C2 as stated: once a device's Connected flag is false it is false in every
\* later state of that device, whatever the calls and backend events.
C2_DisconnectMonotone ==
    [][\A d \in DevIds :
          (devs[d].alive /\ ~devs[d].Connected /\ devs'[d].alive)
          => ~devs'[d].Connected]_vars

\* C2, amended: a device whose Connected flag is false keeps it false through
\* every call and backend event except alcResetDeviceSOFT on that device,
\* which sets it again before it updates the device.
C2_DisconnectedUntilReset ==
    [][\A d \in DevIds :
          (devs[d].alive /\ ~devs[d].Connected /\ devs'[d].alive)
          => \/ ~devs'[d].Connected
             \/ last'.op = "alcResetDeviceSOFT" /\ last'.dev = d]_vars

\* C2, the case: a disconnected playback device that has been paused, with
\* a context on it, is still disconnected.
C2_StillDisconnected ==
    /\ last.op = "alcDevicePauseSOFT" /\ last.dev \in DevIds
    /\ devs[last.dev].alive /\ devs[last.dev].Type = Playback
    /\ ~devs[last.dev].Connected /\ devs[last.dev].Paused
    /\ devs[last.dev].ContextList # << >>

\* C3: a batch of property changes made while updates are deferred and then
\* released by ALCcontext_ProcessUpdates takes effect in one mixer pass:
\* between two mixer passes the mixer uses either all or none of the
\* entities a batch changed, under every interleaving of the two threads.
C3_BatchAppliedTogether ==
    upd.mixer = "idle"
    => \A b \in 1..MaxBatches : \A e1, e2 \in upd.mutated[b] :
          (upd.applied[e1] >= b) <=> (upd.applied[e2] >= b)

\* C3, the case: the mixer, having made a pass of its own meanwhile, uses the
\* first batch's change of every entity.
C3_BatchTaken ==
    /\ upd.mixer = "idle" /\ upd.UpdateCount = 2 * MaxMixerPasses
    /\ upd.mutated[1] = EntitySet
    /\ \A e \in EntitySet : upd.applied[e] = 1

Stopped(device) == ~device.Running /\ ~device.BackendRunning

\* Every source of every context attached to device d has one send per
\* auxiliary send of the device.
SendsCoherent(ds, cs, d) ==
    \A c \in SeqToSet(ds[d].ContextList) : \A s \in 1..Len(cs[c].Sources) :
        Len(cs[c].Sources[s]) = ds[d].NumAuxSends

UpdateFailed == UpdateRan /\ last.err \in { ALC_INVALID_VALUE, ALC_INVALID_DEVICE }

\* C4 as stated: whenever UpdateDeviceParams returns an error the device is
\* stopped and every source of every attached context has NumAuxSends sends.
C4_FailureStopsDevice ==
    UpdateFailed
    => Stopped(devs[last.dev]) /\ SendsCoherent(devs, ctxs, last.dev)

\* C4, amended: whenever UpdateDeviceParams returns an error every source of
\* every attached context has NumAuxSends sends; the device is stopped when
\* the error is InvalidDevice and when the caller is alcResetDeviceSOFT;
\* InvalidValue is returned for loopback devices only, and returned to
\* alcCreateContext it leaves the device running or stopped as it was.
C4_FailureKeepsSendsCoherent ==
    [][(last'.op \in UpdateCallers
        /\ last'.err \in { ALC_INVALID_VALUE, ALC_INVALID_DEVICE })
       => /\ SendsCoherent(devs', ctxs', last'.dev)
          /\ last'.err = ALC_INVALID_DEVICE => Stopped(devs'[last'.dev])
          /\ last'.op = "alcResetDeviceSOFT" => Stopped(devs'[last'.dev])
          /\ last'.err = ALC_INVALID_VALUE => devs[last'.dev].Type = Loopback
          /\ (last'.op = "alcCreateContext" /\ last'.err = ALC_INVALID_VALUE)
             => /\ devs'[last'.dev].Running = devs[last'.dev].Running
                /\ devs'[last'.dev].BackendRunning = devs[last'.dev].BackendRunning]_vars

\* C4, the case: UpdateDeviceParams has failed with InvalidDevice after it
\* changed the number of sends of a device whose context has a source.
C4_FailedAfterResize ==
    /\ UpdateFailed /\ last.err = ALC_INVALID_DEVICE
    /\ devs[last.dev].NumAuxSends # DEFAULT_SENDS
    /\ \E c \in SeqToSet(devs[last.dev].ContextList) :
          /\ Len(ctxs[c].Sources) > 0
          /\ Len(ctxs[c].Sources[1]) = devs[last.dev].NumAuxSends

\* C5 as stated: after a successful UpdateDeviceParams that reset the
\* backend, the length of MixBuffer is the sum of the three channel counts
\* the device holds.
C5_MixBufferIsSumOfCounts ==
    (UpdateRan /\ last.err = ALC_NO_ERROR /\ InSeq("reset", last.calls))
    => devs[last.dev].MixBuffer =
          devs[last.dev].Dry.NumChannels + devs[last.dev].FOAOut.NumChannels
          + devs[last.dev].RealOut.NumChannels

\* The channels of a view that has a part of MixBuffer of its own.
OwnChannels(device, view) ==
    IF view.Buffer = device.Dry.Buffer THEN 0 ELSE view.NumChannels

\* C5, amended: after a successful UpdateDeviceParams that reset the backend,
\* the length of MixBuffer is Dry.NumChannels plus the channel counts of
\* those of FOAOut and RealOut that do not alias Dry; a view the renderer
\* left with no channels aliases Dry and holds Dry's count.
C5_MixBufferIsSumOfOwnViews ==
    (UpdateRan /\ last.err = ALC_NO_ERROR /\ InSeq("reset", last.calls))
    => LET device == devs[last.dev]
       IN  /\ device.MixBuffer = device.Dry.NumChannels
                                 + OwnChannels(device, device.FOAOut)
                                 + OwnChannels(device, device.RealOut)
           /\ \A view \in { device.FOAOut, device.RealOut } :
                 view.Buffer = device.Dry.Buffer
                 => view.NumChannels = device.Dry.NumChannels

\* C5, the case: after a successful update one of FOAOut and RealOut has
\* channels of its own and the other aliases Dry.
C5_OneViewAliasesDry ==
    /\ UpdateRan /\ last.err = ALC_NO_ERROR /\ InSeq("reset", last.calls)
    /\ devs[last.dev].RealOut.Buffer # devs[last.dev].Dry.Buffer
    /\ devs[last.dev].FOAOut.Buffer = devs[last.dev].Dry.Buffer
    /\ devs[last.dev].MixBuffer > devs[last.dev].Dry.NumChannels

\* The latch alcGetError(p) reads: the device's when p is in the device list,
\* the process-wide one otherwise.
LatchOf(list, ds, nullErr, p) == IF InSeq(p, list) THEN ds[p].LastError ELSE nullErr

\* C6: alcCreateContext on a pointer that is not in the device list, on a
\* capture device or on a device whose Connected flag is false returns null
\* and records InvalidDevice (in the device's latch, or the process-wide one
\* for an unlisted pointer) without calling UpdateDeviceParams or the
\* backend, and changes nothing else: no device's context list, reference
\* count or running state, no context, not the device list. A CONNECTED
\* query on a disconnected device stores 0.
C6_RefusedCreateChangesNothing ==
    [][/\ (/\ last'.op = "alcCreateContext"
           /\ \/ ~InSeq(last'.dev, DeviceList)
              \/ devs[last'.dev].Type = Capture
              \/ ~devs[last'.dev].Connected)
          => /\ last'.ret = "null" /\ last'.ctx = NULL
             /\ last'.err = "NotCalled" /\ last'.calls = << >>
             /\ LatchOf(DeviceList', devs', LastNullDeviceError', last'.dev)
                   = ALC_INVALID_DEVICE
             /\ \A d \in DevIds :
                   devs'[d] = [ devs[d] EXCEPT !.LastError = devs'[d].LastError ]
             /\ ctxs' = ctxs /\ DeviceList' = DeviceList
             /\ GlobalContext' = GlobalContext /\ LocalContext' = LocalContext
       /\ (/\ last'.op = "alcGetIntegerv"
           /\ InSeq(last'.dev, DeviceList) /\ ~devs[last'.dev].Connected)
          => last'.ret = "0"]_vars

\* C6, the case: alcCreateContext has been refused on a playback device that
\* a failed start disconnected while it had a context.
C6_RefusedOnDisconnected ==
    /\ last.op = "alcCreateContext" /\ last.ret = "null" /\ last.err = "NotCalled"
    /\ InSeq(last.dev, DeviceList)
    /\ devs[last.dev].Type = Playback /\ ~devs[last.dev].Connected
    /\ devs[last.dev].ContextList # << >>
    /\ devs[last.dev].LastError = ALC_INVALID_DEVICE

LiveContexts(cs) == { c \in CtxIds : cs[c].alive }

\* C7: when UpdateDeviceParams fails inside alcCreateContext the call returns
\* null, the device's context list and reference count and the set of live
\* contexts are as before the call, the device's LastError holds the code
\* returned, and the device is disconnected, with a disconnect event posted
\* to each attached context, exactly when that code is InvalidDevice.
C7_FailedCreateLeavesNoContext ==
    [][(/\ last'.op = "alcCreateContext"
        /\ last'.err \notin { "NotCalled", ALC_NO_ERROR })
       => /\ last'.ret = "null" /\ last'.ctx = NULL
          /\ devs'[last'.dev].ContextList = devs[last'.dev].ContextList
          /\ devs'[last'.dev].ref = devs[last'.dev].ref
          /\ LiveContexts(ctxs') = LiveContexts(ctxs)
          /\ DeviceList' = DeviceList
          /\ devs'[last'.dev].LastError = last'.err
          /\ devs[last'.dev].Connected
          /\ devs'[last'.dev].Connected = (last'.err # ALC_INVALID_DEVICE)
          /\ \A c \in LiveContexts(ctxs) :
                ctxs'[c].AsyncEvents =
                   IF last'.err = ALC_INVALID_DEVICE
                      /\ InSeq(c, devs[last'.dev].ContextList)
                   THEN mini(ctxs[c].AsyncEvents + 1, EventRingCap)
                   ELSE ctxs[c].AsyncEvents]_vars

\* C7, the case: alcCreateContext has failed with InvalidDevice on a device
\* that keeps its earlier context, whose event ring got the disconnect
\* event.
C7_FailedCreateDisconnected ==
    /\ last.op = "alcCreateContext" /\ last.err = ALC_INVALID_DEVICE
    /\ last.ret = "null"
    /\ ~devs[last.dev].Connected
    /\ devs[last.dev].LastError = ALC_INVALID_DEVICE
    /\ Len(devs[last.dev].ContextList) = 1
    /\ ctxs[devs[last.dev].ContextList[1]].AsyncEvents = 1
    /\ devs[last.dev].ref = 2

BackendFailed(what) == InSeq(what, last.calls)
OpenCalls == { "alcOpenDevice", "alcCaptureOpenDevice" }

\* C8 as stated: every backend failure leaves InvalidDevice, and no other
\* code, in the latch the caller reads: the process-wide latch after a
\* failed open, the device's latch after a failed reset or start.
C8_BackendFailureIsInvalidDevice ==
    /\ (last.op \in OpenCalls /\ BackendFailed("open failed"))
       => LastNullDeviceError = ALC_INVALID_DEVICE
    /\ (BackendFailed("reset failed") \/ BackendFailed("start failed"))
       => devs[last.dev].LastError = ALC_INVALID_DEVICE

\* C8, amended: a failed backend reset in UpdateDeviceParams and a failed
\* backend start in UpdateDeviceParams, alcDeviceResumeSOFT or
\* alcCaptureStart leave InvalidDevice in the device's latch; a failed
\* backend open in alcOpenDevice or alcCaptureOpenDevice returns null and
\* leaves the backend's own error code in the process-wide latch.
C8_OpenFailureKeepsBackendCode ==
    /\ (last.op \in OpenCalls /\ BackendFailed("open failed"))
       => /\ last.ret = "null"
          /\ last.err # ALC_NO_ERROR
          /\ LastNullDeviceError = last.err
    /\ (BackendFailed("reset failed") \/ BackendFailed("start failed"))
       => /\ devs[last.dev].LastError = ALC_INVALID_DEVICE
          /\ ~devs[last.dev].Connected
          /\ last.ret \in { "null", "false", "void" }

\* C8, the case: the backend's open() has failed with OutOfMemory in
\* alcCaptureOpenDevice.
C8_OpenFailedOutOfMemory ==
    /\ last.op = "alcCaptureOpenDevice" /\ BackendFailed("open failed")
    /\ last.err = ALC_OUT_OF_MEMORY
    /\ LastNullDeviceError = ALC_OUT_OF_MEMORY

CloseCalls == { "alcCloseDevice", "alcCaptureCloseDevice" }

\* C9: the error state is one latch per device and one process-wide latch.
\* alcGetError(p) returns what the latch of p holds (the process-wide latch
\* for a pointer not in the device list), leaves NoError in it and changes
\* nothing else; a call that fails on a listed device leaves its own code in
\* that device's latch whatever the latch held; and no call changes the
\* latch of a device other than the one it is about, nor the process-wide
\* latch when it is about a listed device.
C9_ErrorLatch ==
    [][/\ last'.op = "alcGetError"
          => /\ last'.ret = LatchOf(DeviceList, devs, LastNullDeviceError, last'.dev)
             /\ LatchOf(DeviceList', devs', LastNullDeviceError', last'.dev)
                   = ALC_NO_ERROR
             /\ DeviceList' = DeviceList
             /\ \A d \in DevIds :
                   devs'[d] = [ devs[d] EXCEPT !.LastError = devs'[d].LastError ]
       /\ (/\ last'.op \in CloseCalls \cup { "alcResetDeviceSOFT" }
           /\ last'.ret = "false" /\ InSeq(last'.dev, DeviceList))
          => devs'[last'.dev].LastError =
                IF last'.err = "NotCalled" THEN ALC_INVALID_DEVICE ELSE last'.err
       /\ \A d \in DevIds :
             (d # last'.dev /\ devs[d].alive /\ devs'[d].alive)
             => devs'[d].LastError = devs[d].LastError
       /\ InSeq(last'.dev, DeviceList)
          => LastNullDeviceError' = LastNullDeviceError]_vars

\* C9, the case: alcGetError has returned InvalidValue for one device and
\* left NoError in its latch, while the other device's latch and the
\* process-wide latch still hold the errors raised on them.
C9_ReadOneOfThreeLatches ==
    /\ last.op = "alcGetError" /\ last.ret = ALC_INVALID_VALUE
    /\ InSeq(last.dev, DeviceList)
    /\ devs[last.dev].LastError = ALC_NO_ERROR
    /\ \E d \in SeqToSet(DeviceList) :
          d # last.dev /\ devs[d].LastError = ALC_INVALID_DEVICE
    /\ LastNullDeviceError = ALC_OUT_OF_MEMORY

\* C10: alcCloseDevice and alcCaptureCloseDevice called with a pointer that
\* is not in the device list (the list may be empty, the pointer may be
\* null) return false, record InvalidDevice in the process-wide latch and
\* leave the device list, every device and every context unchanged.
C10_CloseOfUnlistedRefused ==
    [][(last'.op \in CloseCalls /\ ~InSeq(last'.dev, DeviceList))
       => /\ last'.ret = "false"
          /\ LastNullDeviceError' = ALC_INVALID_DEVICE
          /\ DeviceList' = DeviceList /\ devs' = devs /\ ctxs' = ctxs
          /\ ~crashed']_vars

\* C10, the failing input: alcCloseDevice called with a non-null pointer
\* while the device list is empty has read through the null list head.
C10_CloseOnEmptyListCrashed ==
    /\ crashed /\ last.op = "alcCloseDevice" /\ last.ret = "crash"
    /\ last.dev # NULL /\ DeviceList = << >>

\* ---------------------------------------------------------------------
\* SpecOpenClose: an application that opens up to MaxDevices devices of the
\* three kinds, against a backend whose open() may fail, and closes them in
\* any order, with listed and unlisted pointers.
NextOpenClose ==
    \/ \E res \in { ALC_NO_ERROR, ALC_OUT_OF_MEMORY } : alcOpenDevice(res, MaxDevices)
    \/ alcCaptureOpenDevice(1024, TRUE, ALC_NO_ERROR, MaxDevices)
    \/ alcLoopbackOpenDeviceSOFT(MaxDevices)
    \/ \E t \in Threads, p \in Pointers : alcCloseDevice(t, p)
    \/ \E p \in Pointers : alcCaptureCloseDevice(p)

SpecOpenClose == InitList /\ [][NextOpenClose]_vars

\* The list s without x, the other elements in their order.
Without(s, x) == LET keep(y) == y # x IN SelectSeq(s, keep)
AllOpenCalls == OpenCalls \cup { "alcLoopbackOpenDeviceSOFT" }

\* C11: a successful open puts the new device at the head of the device
\* list and leaves the rest as it was, a failed open leaves the list as it
\* was, and a close that returns true removes exactly the device closed,
\* wherever it is in the list, keeping the others in their order: closing
\* the device opened last gives back the list from before its open. The list
\* never holds a device twice, nor a null pointer.
C11_OpenCloseKeepOthers ==
    [][/\ (last'.op \in AllOpenCalls /\ last'.ret = "device")
          => /\ ~InSeq(last'.dev, DeviceList)
             /\ DeviceList' = << last'.dev >> \o DeviceList
             /\ Unlink(DeviceList', last'.dev) = DeviceList
       /\ (last'.op \in AllOpenCalls /\ last'.ret = "null")
          => DeviceList' = DeviceList
       /\ (last'.op \in CloseCalls /\ last'.ret = "true")
          => /\ InSeq(last'.dev, DeviceList)
             /\ DeviceList' = Without(DeviceList, last'.dev)
             /\ Len(DeviceList') = Len(DeviceList) - 1
       /\ \A i, j \in 1..Len(DeviceList') :
             DeviceList'[i] # NULL /\ (i # j => DeviceList'[i] # DeviceList'[j])]_vars

\* C11, the case: the middle device of a list of three has been closed and
\* the list holds the former head and tail, in that order.
C11_MiddleDeviceClosed ==
    /\ last.op \in CloseCalls /\ last.ret = "true"
    /\ Len(last.list) = MaxDevices /\ last.list[2] = last.dev
    /\ DeviceList = << last.list[1], last.list[MaxDevices] >>

\* ---------------------------------------------------------------------
\* SpecContexts: an application with one playback device and up to
\* MaxContexts contexts on it, created and destroyed in any order by its
\* threads, which also make contexts current, process-wide and for the
\* thread, ask for the current context, end, and close the device.
NextContexts ==
    \/ alcOpenDevice(ALC_NO_ERROR, SingleDevice)
    \/ \E t \in Threads, p \in Pointers : alcCloseDevice(t, p)
    \/ \E p \in Pointers, env \in { EnvOK, EnvResetFails } :
          alcCreateContext(p, AttrEmpty, env, TRUE, MaxContexts)
    \/ \E t \in Threads, c \in CtxPointers : alcDestroyContext(t, c)
    \/ \E t \in Threads, c \in CtxPointers : alcMakeContextCurrent(t, c)
    \/ \E t \in Threads, c \in CtxPointers : alcSetThreadContext(t, c)
    \/ \E t \in Threads : alcGetCurrentContext(t)
    \/ \E t \in Threads : ThreadExit(t)

SpecContexts == InitList /\ [][NextContexts]_vars

\* C12: a successful alcCreateContext puts the new context at the head of
\* the device's context list and leaves the rest as it was, and
\* alcDestroyContext of an attached context unlinks exactly that context,
\* wherever it is in the list, keeping the others in their order, and
\* returns: destroying the context created last gives back the list from
\* before its creation. No context list holds a context twice, nor a null
\* pointer, and the context lists of the other devices stay as they were.
C12_CreateDestroyKeepOthers ==
    [][/\ (last'.op = "alcCreateContext" /\ last'.ret = "context")
          => LET list == devs[last'.dev].ContextList
             IN  /\ ~InSeq(last'.ctx, list)
                 /\ devs'[last'.dev].ContextList = << last'.ctx >> \o list
                 /\ Unlink(devs'[last'.dev].ContextList, last'.ctx) = list
       /\ (last'.op = "alcCreateContext" /\ last'.ret = "null" /\ last'.dev \in DevIds)
          => devs'[last'.dev].ContextList = devs[last'.dev].ContextList
       /\ (last'.op = "alcDestroyContext" /\ VerifyContext(last'.ctx) # NULL)
          => LET d == ctxs[last'.ctx].Device
             IN  /\ last'.ret = "void" /\ ~crashed'
                 /\ InSeq(last'.ctx, devs[d].ContextList)
                 /\ devs'[d].ContextList = Without(devs[d].ContextList, last'.ctx)
                 /\ \A e \in DevIds \ { d } : devs'[e].ContextList = devs[e].ContextList
       /\ \A d \in DevIds : \A i, j \in 1..Len(devs'[d].ContextList) :
             /\ devs'[d].ContextList[i] # NULL
             /\ i # j => devs'[d].ContextList[i] # devs'[d].ContextList[j]]_vars

\* C12, the case: the middle context of a device's three has been destroyed
\* and the device's list holds the former head and tail, in that order.
C12_MiddleContextDestroyed ==
    /\ last.op = "alcDestroyContext"
    /\ Len(last.list) = MaxContexts /\ last.list[2] = last.ctx
    /\ \E d \in SeqToSet(DeviceList) :
          devs[d].ContextList = << last.list[1], last.list[MaxContexts] >>

\* ---------------------------------------------------------------------
\* SpecVerify: an application with up to TwoDevices playback and capture
\* devices and one context, whose threads make the context their own, end,
\* read errors and close the devices while a further thread is inside an
\* API call, between its VerifyDevice and the end of its DeviceRef.
NextVerify ==
    \/ alcOpenDevice(ALC_NO_ERROR, TwoDevices)
    \/ alcCaptureOpenDevice(1024, TRUE, ALC_NO_ERROR, TwoDevices)
    \/ \E t \in Threads, p \in Pointers : alcCloseDevice(t, p)
    \/ \E p \in Pointers : alcCaptureCloseDevice(p)
    \/ \E p \in Pointers : alcCreateContext(p, AttrEmpty, EnvOK, TRUE, SingleContext)
    \/ \E t \in Threads, c \in CtxPointers : alcDestroyContext(t, c)
    \/ \E t \in Threads, c \in CtxPointers : alcSetThreadContext(t, c)
    \/ \E t \in Threads : ThreadExit(t)
    \/ \E p \in Pointers : alcGetError(p)
    \/ \E p \in Pointers : VerifyDeviceRef(p)
    \/ DeviceRefReset

SpecVerify == InitList /\ [][NextVerify]_vars

\* C13 as stated, for the call that follows the close: after alcCloseDevice
\* or alcCaptureCloseDevice has returned true for a pointer, the next call
\* does not find that pointer in the device list.
C13_ClosedNeverVerifiedAgain ==
    [][(last.op \in CloseCalls /\ last.ret = "true")
       => ~InSeq(last.dev, DeviceList')]_vars

\* C13, amended: VerifyDevice(p) returns a reference exactly when p is in
\* the device list; it then adds one to that device's reference count and
\* changes nothing else, and the end of the DeviceRef gives that one back,
\* deleting the device when it was the last. A close that returns true takes
\* the pointer out of the list, a call with an unlisted pointer is a call
\* with no device (alcGetError reads the process-wide latch), and a pointer
\* that is not in the list gets into it only by an open function that
\* returns it for a new device, the device it was before having been
\* deleted.
C13_VerifyDeviceCounts ==
    [][/\ last'.op = "VerifyDevice"
          => /\ (last'.ret = "device") <=> InSeq(last'.dev, DeviceList)
             /\ held' = IF last'.ret = "device" THEN last'.dev ELSE NULL
             /\ devs' = IF last'.ret = "device"
                        THEN [ devs EXCEPT ![last'.dev].ref = @ + 1 ] ELSE devs
             /\ DeviceList' = DeviceList /\ ctxs' = ctxs
       /\ last'.op = "DeviceRef::reset"
          => /\ last'.dev = held /\ held' = NULL /\ devs[held].alive
             /\ devs[held].ref - 1 = IF devs'[held].alive THEN devs'[held].ref ELSE 0
             /\ \A d \in DevIds \ { held } : devs'[d] = devs[d]
             /\ DeviceList' = DeviceList
       /\ (last'.op \in CloseCalls /\ last'.ret = "true")
          => ~InSeq(last'.dev, DeviceList')
       /\ (last'.op = "alcGetError" /\ ~InSeq(last'.dev, DeviceList))
          => /\ last'.ret = LastNullDeviceError
             /\ devs' = devs
       /\ \A d \in DevIds :
             (~InSeq(d, DeviceList) /\ InSeq(d, DeviceList'))
             => /\ last'.op \in AllOpenCalls /\ last'.dev = d /\ last'.ret = "device"
                /\ ~devs[d].alive]_vars

\* C13, the case: a device was closed while a reference VerifyDevice gave
\* was held, and the end of that reference has deleted it.
C13_LastReferenceDropped ==
    /\ last.op = "DeviceRef::reset" /\ last.dev # NULL
    /\ ~devs[last.dev].alive /\ ~InSeq(last.dev, DeviceList)
    /\ held = NULL

\* The contexts not yet finalized that were created on device d.
BoundContexts(d) == { c \in CtxIds : ctxs[c].alive /\ ctxs[c].Device = d }

\* The references on device d: the device list's, one for each context bound
\* to it, and the one a thread inside an API call holds.
DeviceReferences(d) ==
    (IF InSeq(d, DeviceList) THEN 1 ELSE 0) + Cardinality(BoundContexts(d))
    + (IF held = d THEN 1 ELSE 0)

\* C14: every context not yet finalized holds one reference on its device: a
\* device's reference count is 1 if it is in the device list, plus the
\* number of live contexts bound to it (plus the reference of a thread that
\* is inside an API call on it), and the device object exists exactly while
\* that number is not zero, so never less long than a context bound to it,
\* closed or not.
C14_DeviceRefCount ==
    \A d \in DevIds :
        /\ devs[d].alive <=> DeviceReferences(d) > 0
        /\ devs[d].ref = DeviceReferences(d)
        /\ \A c \in CtxIds : ctxs[c].alive => devs[ctxs[c].Device].alive

\* C14, the case: alcCloseDevice has returned true for a device that lives
\* on, out of the device list, on the reference of a context that is still
\* the thread-local context of another thread.
C14_ClosedDeviceKeptByContext ==
    /\ last.op = "alcCloseDevice" /\ last.ret = "true"
    /\ ~InSeq(last.dev, DeviceList) /\ held = NULL
    /\ devs[last.dev].alive /\ devs[last.dev].ref = 1
    /\ \E c \in BoundContexts(last.dev) : \E t \in Threads : LocalContext[t] = c

\* The references on context c in a world: its device's context list's, the
\* process-wide current context's, and one for each thread whose
\* thread-local context it is.
ContextReferences(ds, cs, g, l, c) ==
    (IF InSeq(c, ds[cs[c].Device].ContextList) THEN 1 ELSE 0)
    + (IF g = c THEN 1 ELSE 0)
    + Cardinality({ t \in Threads : l[t] = c })

CurrentSomewhere(g, l, c) == g = c \/ \E t \in Threads : l[t] = c
CountedCalls ==
    { "alcMakeContextCurrent", "alcSetThreadContext", "alcDestroyContext",
      "alcCloseDevice", "alcCreateContext", "alcGetCurrentContext" }

CurrentCalls == { "alcMakeContextCurrent", "alcSetThreadContext" }

\* C16: alcGetCurrentContext returns the calling thread's thread-local
\* context when it is set and the process-wide current context otherwise,
\* and changes nothing. alcMakeContextCurrent(c) and alcSetThreadContext(c)
\* return true exactly when c is null or an attached context. A successful
\* alcMakeContextCurrent(c) makes c the process-wide current context and
\* clears the thread-local context of the calling thread, which then sees c,
\* and leaves the thread-local contexts of the other threads; a successful
\* alcSetThreadContext(c) sets the calling thread's thread-local context
\* only. A call that returns false records InvalidContext in the
\* process-wide latch and changes neither slot, nor any context.
C16_CurrentContext ==
    [][/\ last'.op = "alcGetCurrentContext"
          => /\ last'.ctx = IF LocalContext[last'.thread] # NULL
                            THEN LocalContext[last'.thread] ELSE GlobalContext
             /\ UNCHANGED << GlobalContext, LocalContext, ctxs, devs, DeviceList >>
       /\ last'.op \in CurrentCalls
          => /\ (last'.ret = "true") <=> (last'.ctx = NULL \/ VerifyContext(last'.ctx) # NULL)
             /\ last'.ret \in { "true", "false" }
             /\ \A t \in Threads \ { last'.thread } : LocalContext'[t] = LocalContext[t]
       /\ (last'.op = "alcMakeContextCurrent" /\ last'.ret = "true")
          => /\ GlobalContext' = last'.ctx
             /\ LocalContext'[last'.thread] = NULL
       /\ (last'.op = "alcSetThreadContext" /\ last'.ret = "true")
          => /\ LocalContext'[last'.thread] = last'.ctx
             /\ GlobalContext' = GlobalContext
       /\ (last'.op \in CurrentCalls /\ last'.ret = "false")
          => /\ LastNullDeviceError' = ALC_INVALID_CONTEXT
             /\ UNCHANGED << GlobalContext, LocalContext, ctxs, devs, DeviceList >>]_vars

\* C16, the case: alcGetCurrentContext has returned the thread-local context
\* of the calling thread while another context is the process-wide current
\* context, which the other thread, with no thread-local context, sees.
C16_ThreadLocalOverrides ==
    /\ last.op = "alcGetCurrentContext" /\ last.ctx # NULL
    /\ LocalContext[last.thread] = last.ctx
    /\ GlobalContext \notin { NULL, last.ctx }
    /\ \E t \in Threads : LocalContext[t] = NULL

\* SpecClean: SpecDefer with property setters called while updates are not
\* deferred, setters of a source that has no voice, and a device reset that
\* goes over the context.
NextClean ==
    \/ NextDefer
    \/ SetIdleSourceProperty
    \/ \E e \in EntitySet : SetPropertyDirect(e)
    \/ udContextProps

SpecClean == InitList /\ [][NextClean]_vars

ProcessUpdatesReturns == upd.pc \in { "release", "return" } /\ upd'.pc = "idle"

NextClock ==
    \/ mixIncrementBefore
    \/ mixSamplesDone
    \/ mixClockBase
    \/ mixSamplesWrap
    \/ mixIncrementAfter
    \/ ucbIncrementBefore
    \/ ucbClockBase
    \/ ucbSamplesDone
    \/ ucbIncrementAfter
    \/ rdLock
    \/ rdSpin
    \/ rdClockBase
    \/ rdSamplesDone
    \/ rdCheck
    \/ rdReturn

SpecClock == InitList /\ [][NextClock]_vars

\* C18: the pair (basecount, samplecount) the clock query leaves its loop
\* with was the device's pair (ClockBase, SamplesDone) at one instant since
\* the query began, under every interleaving with the mixer's pass and
\* UpdateClockBase; and MixCount is even whenever neither writer is between
\* its two increments, odd while one is.
C18_ConsistentClockPair ==
    /\ clock.reader = "done"
       => << clock.basecount, clock.samplecount >> \in clock.seen
    /\ WriterInside <=> clock.MixCount % 2 = 1

\* C18, the case: the query went round its loop again because a writer ran
\* during its reads, in which the device had more than two different pairs,
\* and has now left the loop with the pair the device has.
C18_ReadAfterRetry ==
    /\ clock.reader = "done" /\ clock.retried
    /\ Cardinality(clock.seen) > 2
    /\ clock.basecount = clock.ClockBase /\ clock.samplecount = clock.SamplesDone
    /\ clock.ClockBase > 0

\* SpecSends: an application with one playback device and two contexts that
\* generates sources, routes their sends to effect slots, and resets the
\* device or creates a context with another number of auxiliary sends.
SendAttrLists == { AttrEmpty } \cup { AttrSends(n) : n \in 0..MaxSendCount }

NextSends ==
    \/ alcOpenDevice(ALC_NO_ERROR, SingleDevice)
    \/ \E p \in SeqToSet(DeviceList), a \in SendAttrLists :
          alcCreateContext(p, a, EnvOK, TRUE, TwoContexts)
    \/ \E c \in CtxIds : alGenSources(c)
    \/ \E c \in CtxIds, s \in 1..MaxSources, i \in 1..MaxSendCount,
          slot \in 0..MaxSlots, gain \in SendGains : alSource3i(c, s, i, slot, gain)
    \/ \E p \in SeqToSet(DeviceList), a \in SendAttrLists :
          alcResetDeviceSOFT(p, a, EnvOK)

SpecSends == InitList /\ [][NextSends]_vars

\* The sends at indices lo..hi of the sources of a context that feed slot k.
SendsToSlot(context, lo, hi, k) ==
    { x \in (1..Len(context.Sources)) \X (lo..hi) :
        x[2] <= Len(context.Sources[x[1]]) /\ context.Sources[x[1]][x[2]].Slot = k }


\* C19: after UpdateDeviceParams has succeeded, in alcResetDeviceSOFT or
\* alcCreateContext, every source of every context that was attached to the
\* device has as many sends as the device has now; the sends below the old
\* and the new count keep their slot and gains, the sends added have no slot
\* and gains of 1.0, and every slot has lost one reference for each dropped
\* send that fed it, and none else.
C19_SendCountChange ==
    [][(last'.op \in UpdateCallers /\ last'.err = ALC_NO_ERROR)
       => LET d   == last'.dev
              old == devs[d].NumAuxSends
              new == devs'[d].NumAuxSends
          IN  \A c \in SeqToSet(devs[d].ContextList) :
                /\ ctxs'[c].alive /\ Len(ctxs'[c].Sources) = Len(ctxs[c].Sources)
                /\ \A s \in 1..Len(ctxs[c].Sources) :
                     /\ Len(ctxs[c].Sources[s]) = old
                     /\ Len(ctxs'[c].Sources[s]) = new
                     /\ \A i \in 1..Min(old, new) :
                          ctxs'[c].Sources[s][i] = ctxs[c].Sources[s][i]
                     /\ \A i \in (old + 1)..new : ctxs'[c].Sources[s][i] = SendInit
                /\ \A k \in 1..MaxSlots :
                     ctxs'[c].SlotRef[k] = ctxs[c].SlotRef[k]
                        - Cardinality(SendsToSlot(ctxs[c], new + 1, old, k))]_vars

\* C19, the case: alcResetDeviceSOFT has taken the device from two sends
\* to one; the source's first send still feeds slot 1 with the gains it was
\* given, and slot 2, which no send feeds any more, has no reference.
C19_SendsDropped ==
    /\ last.op = "alcResetDeviceSOFT" /\ last.err = ALC_NO_ERROR
    /\ last.old_sends = 2 /\ devs[last.dev].NumAuxSends = 1
    /\ \E c \in SeqToSet(devs[last.dev].ContextList) :
          /\ Len(ctxs[c].Sources) > 0
          /\ ctxs[c].Sources[1] = << [ Slot |-> 1, Gain |-> "0.5" ] >>
          /\ ctxs[c].SlotRef = << 1, 0 >>

\* What UpdateDeviceParams sets up in a device.
DeviceParams(device) ==
    << device.Frequency, device.FmtChans, device.NumAuxSends, device.MixBuffer,
       device.Dry, device.FOAOut, device.RealOut, device.Paused >>

\* C20: UpdateDeviceParams called with a null or empty attribute list on a
\* Loopback device returns InvalidValue and has changed nothing: it has made
\* no backend call (alcResetDeviceSOFT has stopped a running device before
\* the call), and the device's frequency, format, send count, mix buffer
\* and its views, running state and every context are as they were at the
\* call.
\* Called with a null or empty list on a Playback device it does not return
\* InvalidValue, and a failure comes with a failed backend reset or start or
\* a failed update of a default effect slot.
C20_EmptyListOnLoopback ==
    [][(last'.op \in UpdateCallers /\ last'.err # "NotCalled" /\ last'.attrs = << >>)
       => LET d == last'.dev
              reset == last'.op = "alcResetDeviceSOFT"
          IN  /\ devs[d].Type = Loopback
                 => /\ last'.err = ALC_INVALID_VALUE
                    /\ last'.calls = IF reset THEN StopCalls(devs[d]) ELSE << >>
                    /\ DeviceParams(devs'[d]) = DeviceParams(devs[d])
                    /\ devs'[d].Running = IF reset THEN FALSE ELSE devs[d].Running
                    /\ devs'[d].BackendRunning = IF reset THEN FALSE
                                                 ELSE devs[d].BackendRunning
                    /\ devs'[d].LastError = ALC_INVALID_VALUE
                    /\ devs'[d].ContextList = devs[d].ContextList
                    /\ ctxs' = ctxs
              /\ devs[d].Type = Playback
                 => /\ last'.err \in { ALC_NO_ERROR, ALC_INVALID_DEVICE }
                    /\ last'.err = ALC_INVALID_DEVICE
                       => \/ InSeq("reset failed", last'.calls)
                          \/ InSeq("start failed", last'.calls)
                          \/ \E c \in SeqToSet(devs[d].ContextList) :
                                ctxs[c].DefaultSlot]_vars

\* C20, the case: alcCreateContext without attributes has failed with
\* InvalidValue on a running loopback device that has a context with a
\* source, and the device is still running.
C20_LoopbackCreateWithoutAttributes ==
    /\ last.op = "alcCreateContext" /\ last.attrs = << >>
    /\ last.err = ALC_INVALID_VALUE /\ last.calls = << >>
    /\ devs[last.dev].Type = Loopback /\ devs[last.dev].Running
    /\ devs[last.dev].LastError = ALC_INVALID_VALUE
    /\ \E c \in SeqToSet(devs[last.dev].ContextList) : Len(ctxs[c].Sources) > 0

\* The value a list gives for a key, AL_NONE when it does not give the key.
Given(attrList, key) ==
    IF HasKey(attrList, key)
    THEN attrList[CHOOSE i \in 1..Len(attrList) : attrList[i][1] = key][2]
    ELSE AL_NONE

\* The ambisonic attributes of a list are missing or invalid: no layout or
\* one that is neither ACN nor FuMa, no scaling or one that is none of N3D,
\* SN3D and FuMa, no order or one outside 1..MAX_AMBI_ORDER, or FuMa with an
\* order above 3.
AmbisonicsRefused(attrList) ==
    LET layout == Given(attrList, ALC_AMBISONIC_LAYOUT_SOFT)
        scale  == Given(attrList, ALC_AMBISONIC_SCALING_SOFT)
        order  == Given(attrList, ALC_AMBISONIC_ORDER_SOFT)
    IN  \/ layout \notin { ALC_ACN_SOFT, ALC_FUMA_SOFT }
        \/ scale \notin { ALC_N3D_SOFT, ALC_SN3D_SOFT, ALC_FUMA_SOFT }
        \/ order < 1 \/ order > MAX_AMBI_ORDER
        \/ (layout = ALC_FUMA_SOFT \/ scale = ALC_FUMA_SOFT) /\ order > 3

FormatOf(device) ==
    << device.Frequency, device.FmtChans, device.FmtType, device.mAmbiOrder,
       device.mAmbiLayout, device.mAmbiScale >>

RenderBuffers == { NULL, 1 }
RenderSamples == { 0 - 1, 0, 1 }

NextRender ==
    \/ alcOpenDevice(ALC_NO_ERROR, TwoDevices)
    \/ alcCaptureOpenDevice(1024, TRUE, ALC_NO_ERROR, TwoDevices)
    \/ alcLoopbackOpenDeviceSOFT(TwoDevices)
    \/ \E t \in Threads, p \in SeqToSet(DeviceList) : alcCloseDevice(t, p)
    \/ \E p \in SeqToSet(DeviceList) : alcCaptureCloseDevice(p)
    \/ \E p \in Pointers, buffer \in RenderBuffers, samples \in RenderSamples :
          alcRenderSamplesSOFT(p, buffer, samples)
    \/ \E p \in Pointers : alcGetError(p)

SpecRender == InitList /\ [][NextRender]_vars

\* C22: alcRenderSamplesSOFT on a listed Loopback device with samples = 0
\* records no error, whatever the buffer; with samples < 0, or samples > 0
\* and a null buffer, it records InvalidValue in the device's latch and does
\* not call the mixer; on a device that is not Loopback it records
\* InvalidDevice in the device's latch, on a pointer that is not in the
\* device list in the process-wide latch, and does not call the mixer. The
\* mixer is called only between the backend's lock and unlock, and the call
\* changes nothing but one error latch.
C22_RenderSamples ==
    [][last'.op = "alcRenderSamplesSOFT"
       => LET p == last'.dev
              listed == InSeq(p, DeviceList)
              loop == listed /\ devs[p].Type = Loopback
              bad == last'.samples < 0 \/ (last'.samples > 0 /\ last'.buffer = NULL)
              latches(ds) == [ d \in DevIds |-> ds[d].LastError ]
              rest(ds) == [ d \in DevIds |-> [ ds[d] EXCEPT !.LastError = ALC_NO_ERROR ] ]
          IN  /\ rest(devs') = rest(devs) /\ ctxs' = ctxs /\ DeviceList' = DeviceList
              /\ (loop /\ ~bad)
                 => /\ latches(devs') = latches(devs)
                    /\ LastNullDeviceError' = LastNullDeviceError
                    /\ last'.calls = << "lock", "aluMixData", "unlock" >>
              /\ (loop /\ bad)
                 => /\ latches(devs') = [ latches(devs) EXCEPT ![p] = ALC_INVALID_VALUE ]
                    /\ LastNullDeviceError' = LastNullDeviceError
                    /\ last'.calls = << >>
              /\ (listed /\ ~loop)
                 => /\ latches(devs') = [ latches(devs) EXCEPT ![p] = ALC_INVALID_DEVICE ]
                    /\ LastNullDeviceError' = LastNullDeviceError
                    /\ last'.calls = << >>
              /\ ~listed
                 => /\ latches(devs') = latches(devs)
                    /\ LastNullDeviceError' = ALC_INVALID_DEVICE
                    /\ last'.calls = << >>]_vars

\* C22, the case: a call for no samples with a null buffer on a loopback
\* device has gone through the mixer and left the InvalidValue of an earlier
\* call in the device's latch.
C22_NoSamplesNullBuffer ==
    /\ last.op = "alcRenderSamplesSOFT" /\ last.samples = 0 /\ last.buffer = NULL
    /\ last.calls = << "lock", "aluMixData", "unlock" >>
    /\ devs[last.dev].Type = Loopback
    /\ devs[last.dev].LastError = ALC_INVALID_VALUE
    /\ LastNullDeviceError = ALC_NO_ERROR

\* ------------------------------------------------- backend selection
MaxSettingLen == 3  \* entries in a `drivers` setting

\* What stands between two commas of a setting: nothing, a name of the
\* table or an unknown one, and each of these after a '-'.
DriverEntries ==
    { << >>, << Minus >> }
    \cup { << n >> : n \in BackendNames \cup { UnknownName } }
    \cup { << Minus, n >> : n \in BackendNames \cup { UnknownName } }

RECURSIVE JoinEntries(_)
JoinEntries(es) ==
    IF Len(es) = 1 THEN es[1]
    ELSE es[1] \o << Comma >> \o JoinEntries(Tail(es))

DriverSettings ==
    { JoinEntries(es) : es \in UNION { [ 1..n -> DriverEntries ] : n \in 1..MaxSettingLen } }

\* Settings under which every answer of the factories is tried: none,
\* "wave," (wave first, then the rest) and "null,alsa" (these two only).
SelectionSettings ==
    { [ has |-> FALSE, setting |-> << >> ],
      [ has |-> TRUE,  setting |-> << "wave", Comma >> ],
      [ has |-> TRUE,  setting |-> << "null", Comma, "alsa" >> ] }

BackendInputs ==
    { Backends(TRUE, s, BackendNames, BackendNames, BackendNames) :
        s \in DriverSettings }
    \cup { Backends(h.has, h.setting, w, p, c) :
             h \in SelectionSettings, w \in SUBSET BackendNames,
             p \in SUBSET BackendNames, c \in SUBSET BackendNames }

InitBackends ==
    \E b \in BackendInputs : InitWithBackends([ DefaultEffect |-> FALSE ], b)

NextBackends ==
    \/ alcOpenDevice(ALC_NO_ERROR, SingleDevice)
    \/ alcCaptureOpenDevice(1024, TRUE, ALC_NO_ERROR, SingleDevice)
    \/ alcGetError(NULL)

SpecBackends == InitBackends /\ [][NextBackends]_vars

\* The places in the candidate list of the entries whose init() succeeds and
\* whose factory supports a kind, and the first of them.
Qualifying(b, support) ==
    { k \in 1..Len(b.candidates) :
        b.candidates[k] \in b.works /\ b.candidates[k] \in support }
FirstQualifying(b, support) ==
    IF Qualifying(b, support) = {} THEN NoName
    ELSE b.candidates[LowestOf(Qualifying(b, support))]
SelectionPoint(b) ==
    IF Qualifying(b, b.playback) = {} \/ Qualifying(b, b.capture) = {}
    THEN Len(b.candidates)
    ELSE Max(LowestOf(Qualifying(b, b.playback)), LowestOf(Qualifying(b, b.capture)))
SelectedAsSpecified(b) ==
    b.once =>
      /\ b.PlaybackBackend = FirstQualifying(b, b.playback)
      /\ b.CaptureBackend = FirstQualifying(b, b.capture)
      /\ b.initialized = SubSeq(b.candidates, 1, SelectionPoint(b))
      /\ { b.PlaybackBackend, b.CaptureBackend } \subseteq b.works \cup { NoName }

\* C23: initialization runs once; it selects for playback the first candidate
\* whose init() succeeds and that supports playback, for capture the first
\* whose init() succeeds and that supports capture; the candidates it
\* initializes are exactly those up to the point where both are selected (all
\* of them when one kind stays unselected); a backend whose init() fails is
\* never selected; with no playback backend alcOpenDevice returns null and
\* records ALC_INVALID_VALUE on the null device.
C23_BackendSelection ==
    [][ /\ SelectedAsSpecified(backends')
        /\ backends.once => backends' = backends
        /\ (last'.op = "alcOpenDevice" /\ backends'.PlaybackBackend = NoName)
             => /\ last'.ret = "null"
                /\ LastNullDeviceError' = ALC_INVALID_VALUE
                /\ DeviceList' = DeviceList ]_vars

\* A playback device was opened after a reordering setting; playback and
\* capture went to different backends and the last candidate was never
\* initialized.
C23_TwoBackendsSelected ==
    /\ last.op = "alcOpenDevice" /\ last.ret = "device"
    /\ backends.once /\ backends.hasDrivers
    /\ backends.PlaybackBackend # NoName /\ backends.CaptureBackend # NoName
    /\ backends.PlaybackBackend # backends.CaptureBackend
    /\ Len(backends.initialized) < Len(backends.candidates)

\* The entries of the setting, where a name is listed and where excluded.
Entries == Pieces(backends.drivers)
Listing(n) == { k \in 1..Len(Entries) : Entries[k] = << n >> }
Excluding(n) == { k \in 1..Len(Entries) : Entries[k] = << Minus, n >> }
LastEntryEmpty == Entries[Len(Entries)] \in { << >>, << Minus >> }
TableIndex(n) == CHOOSE k \in 1..Len(BackendTable) : BackendTable[k] = n

\* The names of S in the order of key (a function on S, one to one).
RECURSIVE SortedBy(_, _)
SortedBy(S, key) ==
    IF S = {} THEN << >>
    ELSE LET n == CHOOSE x \in S : \A y \in S : key[x] <= key[y]
         IN  << n >> \o SortedBy(S \ { n }, key)

ExpectedCandidates(listed) ==
    SortedBy(listed, [ n \in listed |-> LowestOf(Listing(n)) ])
    \o (IF LastEntryEmpty
        THEN LET rest == { n \in BackendNames \ listed : Excluding(n) = {} }
             IN  SortedBy(rest, [ n \in rest |-> TableIndex(n) ])
        ELSE << >>)

NoDuplicateNoStranger(list) ==
    /\ \A j, k \in 1..Len(list) : list[j] = list[k] => j = k
    /\ \A k \in 1..Len(list) : list[k] \in BackendNames

\* C24 as stated: the candidate list is the names listed without '-', each
\* once, in the order of their first listing, followed when the last entry
\* is empty by the backends neither listed nor excluded, in table order; no
\* duplicate, no name from outside the table.
C24_CandidateList ==
    (backends.once /\ backends.hasDrivers) =>
      /\ backends.candidates
           = ExpectedCandidates({ n \in BackendNames : Listing(n) # {} })
      /\ NoDuplicateNoStranger(backends.candidates)

\* C24, amended: as above, but a name counts as listed only when its first
\* listing comes before every exclusion of it; a name excluded first stays
\* excluded however often it is listed afterwards.
C24_CandidateListAfterExclusion ==
    (backends.once /\ backends.hasDrivers) =>
      /\ backends.candidates
           = ExpectedCandidates({ n \in BackendNames :
                                    /\ Listing(n) # {}
                                    /\ \A e \in Excluding(n) : LowestOf(Listing(n)) < e })
      /\ NoDuplicateNoStranger(backends.candidates)

\* A setting that excludes a name, lists it afterwards and ends with an
\* empty entry was applied: the name is not among the candidates.
C24_ExcludedThenListed ==
    /\ backends.once /\ backends.hasDrivers
    /\ LastEntryEmpty
    /\ backends.candidates # << >>
    /\ \E n \in BackendNames :
         /\ Listing(n) # {} /\ Excluding(n) # {}
         /\ LowestOf(Excluding(n)) < LowestOf(Listing(n))
         /\ \A k \in 1..Len(backends.candidates) : backends.candidates[k] # n

\* ------------------------------------------------------- the object pool
MaxSubLists == 2  \* sub-lists a pool grows to
MaxPoolOps == 7   \* allocations made on one pool

Handles == 1..(MaxSubLists * SubListSlots)

NextPool ==
    \/ AllocObject(MaxPoolOps, MaxSubLists)
    \/ \E h \in Handles : FreeObject(h)
    \/ DestroyDevicePool

SpecPool == InitList /\ [][NextPool]_vars

LiveHandles(p) == { h \in Handles : LookupObject(p, h) # NoObject }

\* C25: an allocation returns a handle that was not live and is live
\* afterwards; a handle that is live before and after a step addresses the
\* same object; the used slots of a sub-list are the complement of its
\* free-mask; the count of live objects, at teardown and before, is the
\* number of allocations minus the number of frees.
C25_PoolHandles ==
    [][ /\ pool'.op = "alloc" =>
             /\ pool'.handle \notin LiveHandles(pool)
             /\ pool'.handle \in LiveHandles(pool')
             /\ LiveHandles(pool') = LiveHandles(pool) \cup { pool'.handle }
        /\ \A h \in LiveHandles(pool) \cap LiveHandles(pool') :
             LookupObject(pool', h) = LookupObject(pool, h)
        /\ \A h, g \in LiveHandles(pool') :
             LookupObject(pool', h) = LookupObject(pool', g) => h = g
        /\ LiveCount(pool') = pool'.allocs - pool'.frees
        /\ LiveCount(pool') = Cardinality(LiveHandles(pool'))
        /\ \A k \in 1..Len(pool'.SubLists) :
             LET visited == UsedSlots(UseMask(pool'.SubLists[k]))
             IN  { HandleOf(k - 1, visited[j]) : j \in 1..Len(visited) }
                   = { h \in LiveHandles(pool') : SubListOf(h) = k - 1 }
        /\ pool'.op = "teardown" => pool'.count = pool.allocs - pool.frees ]_vars

\* An allocation returned a handle that had been freed before, while a second
\* sub-list was in use.
C25_FreedHandleReturnedAgain ==
    /\ pool.op = "alloc"
    /\ pool.handle \in pool.freed
    /\ Len(pool.SubLists) = MaxSubLists
    /\ LiveCount(pool) > SubListSlots

\* ------------------------------------------- contexts and their devices
NextAttach ==
    \/ alcOpenDevice(ALC_NO_ERROR, TwoDevices)
    \/ \E t \in Threads, p \in Pointers : alcCloseDevice(t, p)
    \/ \E p \in Pointers, env \in { EnvOK, EnvResetFails } :
          alcCreateContext(p, AttrEmpty, env, TRUE, TwoContexts)
    \/ \E t \in Threads, c \in CtxPointers : alcDestroyContext(t, c)
    \/ \E c \in CtxPointers : alcMakeContextCurrent(1, c)

SpecAttach == InitList /\ [][NextAttach]_vars

\* Where a context is linked: the (device, position) pairs.
Links(ds, c) ==
    { pair \in DevIds \X (1..MaxContexts) :
        /\ pair[2] <= Len(ds[pair[1]].ContextList)
        /\ ds[pair[1]].ContextList[pair[2]] = c }

\* C26: a context VerifyContext finds is linked once, in the context list of
\* one device, which is the context's Device and is in the device list; the
\* Device of a context that stays alive does not change.
C26_ContextOfOneDevice ==
    [][ /\ \A c \in CtxIds :
             VerifyContext(c)' # NULL =>
               /\ Cardinality(Links(devs', c)) = 1
               /\ \A pair \in Links(devs', c) :
                    /\ pair[1] = ctxs'[c].Device
                    /\ InSeq(pair[1], DeviceList')
                    /\ devs'[pair[1]].alive
               /\ ctxs'[c].alive
        /\ \A c \in CtxIds :
             (ctxs[c].alive /\ ctxs'[c].alive) => ctxs'[c].Device = ctxs[c].Device ]_vars

\* Two devices are open, each with a context of its own in its list.
C26_TwoDevicesWithContexts ==
    \E c1, c2 \in CtxIds :
       /\ c1 # c2
       /\ VerifyContext(c1) # NULL /\ VerifyContext(c2) # NULL
       /\ ctxs[c1].Device # ctxs[c2].Device
       /\ last.op = "alcCreateContext" /\ last.ctx = c2

\* ------------------------------------- two callers of ProcessUpdates
\* ALCcontext_DeferUpdates called by a thread of its own: the store takes no
\* lock, so it can fall anywhere into a running ProcessUpdates.
ALCcontext_DeferUpdatesUnlocked ==
    /\ ~upd.DeferUpdates /\ upd.batch < MaxBatches
    /\ UpdStep([ upd EXCEPT !.DeferUpdates = TRUE, !.batch = @ + 1 ])

\* The second thread calls ALCcontext_ProcessUpdates and is at the
\* lock_guard of PropLock.
puOtherCall ==
    /\ upd.pc2 = "idle"
    /\ UpdStep([ upd EXCEPT !.pc2 = "lock" ])

\* It gets PropLock once the first thread is outside, and goes through the
\* same steps.
puOtherExchange ==
    /\ upd.pc2 = "lock" /\ upd.pc = "idle"
    /\ UpdStep([ upd EXCEPT !.DeferUpdates = FALSE,
                            !.pc2 = IF upd.DeferUpdates THEN "hold" ELSE "return" ])

puOtherReturn ==
    /\ upd.pc2 = "return"
    /\ UpdStep([ upd EXCEPT !.pc2 = "idle" ])

puOtherHold ==
    /\ upd.pc2 = "hold"
    /\ UpdStep([ upd EXCEPT !.HoldUpdates = TRUE, !.pc2 = "wait" ])

puOtherWait ==
    /\ upd.pc2 = "wait"
    /\ upd.UpdateCount % 2 = 0
    /\ UpdStep([ upd EXCEPT !.pc2 = Entities[1] ])

puOtherUpdateProps(i) ==
    LET e == Entities[i]
        to == IF i < Len(Entities) THEN Entities[i + 1] ELSE "release"
    IN  /\ upd.pc2 = e
        /\ UpdStep([ upd EXCEPT !.PropsClean[e] = TRUE,
                                !.Update[e] = IF upd.PropsClean[e] THEN @ ELSE upd.value[e],
                                !.pc2 = to ])

puOtherRelease ==
    /\ upd.pc2 = "release"
    /\ UpdStep([ upd EXCEPT !.HoldUpdates = FALSE, !.pc2 = "idle" ])

NextProcess ==
    \/ NextDefer
    \/ ALCcontext_DeferUpdatesUnlocked
    \/ puOtherCall
    \/ puOtherExchange
    \/ puOtherReturn
    \/ puOtherHold
    \/ puOtherWait
    \/ \E i \in 1..Len(Entities) : puOtherUpdateProps(i)
    \/ puOtherRelease

SpecProcess == InitList /\ [][NextProcess]_vars

Callers == { "pc", "pc2" }
Inside(p) == p \notin { "idle", "lock" }
BatchOrder == << "hold", "wait" >> \o Entities \o << "release", "idle" >>

\* What a step of ProcessUpdates keeps to, whoever else runs.
ProcessUpdatesOrder ==
    /\ ~(Inside(upd'.pc) /\ Inside(upd'.pc2))
    /\ \A me \in Callers :
         \* the exchange finds DeferUpdates set and clears it, or finds it clear
         /\ (upd'[me] = "hold" /\ upd[me] # "hold")
              => upd.DeferUpdates /\ ~upd'.DeferUpdates /\ upd'.HoldUpdates = upd.HoldUpdates
         /\ (upd'[me] = "return" /\ upd[me] # "return")
              => ~upd.DeferUpdates /\ ~upd'.HoldUpdates
         /\ (upd[me] = "return" /\ upd'[me] # "return")
              => /\ upd'[me] = "idle"
                 /\ upd'.Update = upd.Update /\ upd'.HoldUpdates = upd.HoldUpdates
         \* the batch goes through its positions in order
         /\ \A k \in 1..(Len(BatchOrder) - 1) :
              (upd[me] = BatchOrder[k] /\ upd'[me] # upd[me]) => upd'[me] = BatchOrder[k + 1]
         /\ (upd[me] = "hold" /\ upd'[me] = "wait") => ~upd.HoldUpdates /\ upd'.HoldUpdates
         /\ (upd[me] = "wait" /\ upd'[me] # "wait") => upd.UpdateCount % 2 = 0
         /\ upd[me] \in { "wait" } \cup EntitySet => upd.HoldUpdates /\ upd'.HoldUpdates
         /\ (upd[me] = "release" /\ upd'[me] = "idle") => upd.HoldUpdates /\ ~upd'.HoldUpdates
    \* HoldUpdates changes in these two steps only
    /\ upd'.HoldUpdates # upd.HoldUpdates
         => \E me \in Callers : \/ upd[me] = "hold" /\ upd'[me] = "wait"
                                \/ upd[me] = "release" /\ upd'[me] = "idle"
    \* a publication is made by a caller at that entity, HoldUpdates being set
    /\ \A e \in EntitySet :
         (upd'.Update[e] # upd.Update[e] /\ upd'.Update[e] # 0)
           => /\ upd.HoldUpdates /\ upd'.HoldUpdates
              /\ \E me \in Callers : upd[me] = e /\ upd'[me] # e
    \* each deferral is taken by one exchange
    /\ (upd.DeferUpdates /\ ~upd'.DeferUpdates)
         => \E me \in Callers : upd'[me] = "hold" /\ upd[me] # "hold"

Returned(me) == Inside(upd[me]) /\ upd'[me] = "idle"

\* C27 as stated: the order above, and on return of ProcessUpdates both
\* DeferUpdates and HoldUpdates are false.
C27_ProcessUpdatesOrder ==
    [][ /\ ProcessUpdatesOrder
        /\ \A me \in Callers :
             Returned(me) => ~upd'.HoldUpdates /\ ~upd'.DeferUpdates ]_vars

\* C27, amended: the order above; on return HoldUpdates is false, and
\* DeferUpdates, cleared by the exchange, is true again only through a call
\* of ALCcontext_DeferUpdates made since.
C27_ProcessUpdatesOrderUnderDeferral ==
    [][ /\ ProcessUpdatesOrder
        /\ \A me \in Callers : Returned(me) => ~upd'.HoldUpdates
        /\ (~upd.DeferUpdates /\ upd'.DeferUpdates)
             => /\ upd'.batch = upd.batch + 1
                /\ upd'.pc = upd.pc /\ upd'.pc2 = upd.pc2 ]_vars

\* One caller is publishing the batch under HoldUpdates while the other
\* waits for PropLock and a third thread has deferred updates again.
C27_BatchWhileOtherWaits ==
    /\ upd.pc = "sources" /\ upd.pc2 = "lock"
    /\ upd.HoldUpdates /\ upd.DeferUpdates
    /\ upd.Update["context"] # 0

\* ------------------------------------- UpdateDeviceParams and the backend
UpdateCalls == { "alcResetDeviceSOFT", "alcCreateContext" }
Positions(calls, names) == { i \in 1..Len(calls) : calls[i] \in names }

\* What the mixer owns of a device and of the contexts attached to it.
MixerOwned(ds, cs, d, attached) ==
    << ds[d].MixBuffer, ds[d].Dry, ds[d].FOAOut, ds[d].RealOut,
       [ c \in attached |-> << cs[c].MaxVoices, cs[c].VoiceSends, cs[c].Sources >> ] >>

\* C28: a call that resets the backend, or changes the mix buffer, its views,
\* the voices or the send arrays of the contexts attached before the call,
\* has stopped the backend first when the device was running, resets before
\* it starts, and starts nothing it has not reset; a backend never runs with
\* DEVICE_RUNNING clear.
C28_StoppedBeforeReconfigured ==
    [][ /\ (last'.op \in UpdateCalls /\ IsListed(last'.dev))
           => LET d        == last'.dev
                  calls    == last'.calls
                  attached == SeqToSet(devs[d].ContextList)
                  resets   == Positions(calls, { "reset", "reset failed" })
                  starts   == Positions(calls, { "start", "start failed" })
                  stops    == Positions(calls, { "stop" })
                  touched  == \/ resets # {}
                              \/ MixerOwned(devs', ctxs', d, attached)
                                   # MixerOwned(devs, ctxs, d, attached)
              IN  /\ stops \subseteq { 1 }
                  /\ starts # {} => resets # {}
                  /\ \A i \in resets, j \in starts : i < j
                  /\ touched => /\ resets # {}
                                /\ (devs[d].Running \/ devs[d].BackendRunning)
                                     => stops = { 1 }
        /\ \A d \in DevIds : devs'[d].BackendRunning => devs'[d].Running ]_vars

\* A context was created with a new send count on a running device that had
\* a context with a source: the backend was stopped, reset and started, and
\* the source's send array follows the device.
C28_RunningDeviceReconfigured ==
    /\ last.op = "alcCreateContext" /\ last.ret = "context"
    /\ last.calls = << "stop", "reset", "start" >>
    /\ devs[last.dev].NumAuxSends # DEFAULT_SENDS
    /\ \E c \in SeqToSet(devs[last.dev].ContextList) :
         /\ c # last.ctx
         /\ Len(ctxs[c].Sources) > 0
         /\ Len(ctxs[c].Sources[1]) = devs[last.dev].NumAuxSends

\* C29: whenever UpdateDeviceParams gets past the backend's reset, it calls
\* start exactly when no effect slot's deviceUpdate failed and the device is
\* not paused; a slot failure returns ALC_INVALID_DEVICE, a paused device
\* ALC_NO_ERROR, both with the device stopped; DEVICE_RUNNING is set exactly
\* when start() succeeded, and a failed start returns ALC_INVALID_DEVICE.
C29_StartAtTheEnd ==
    \A p \in SeqToSet(DeviceList), a \in UpdateAttrLists, env \in UpdateEnvs :
      \A device \in { devs[p], StopIfRunning(devs[p]) } :
        \A r \in { UpdateDeviceParams(device, ctxs, a, env) } :
          LET failed  == \E c \in SeqToSet(device.ContextList) :
                            ctxs[c].DefaultSlot /\ ~env.slotOK
              started == Positions(r.calls, { "start", "start failed" }) # {}
          IN  IF Positions(r.calls, { "reset" }) # {}
              THEN /\ started <=> (~failed /\ ~device.Paused)
                   /\ failed => r.err = ALC_INVALID_DEVICE /\ ~r.device.Running
                   /\ (~failed /\ device.Paused)
                        => /\ r.err = ALC_NO_ERROR
                           /\ ~r.device.Running /\ ~r.device.BackendRunning
                   /\ r.device.Running
                        <=> (started /\ env.start /\ r.calls[Len(r.calls)] = "start")
                   /\ r.device.Running => r.err = ALC_NO_ERROR /\ r.device.BackendRunning
                   /\ (started /\ ~env.start)
                        => r.err = ALC_INVALID_DEVICE /\ ~r.device.Running
              ELSE ~started /\ (r.device.Running => device.Running)

\* A context was refused on a device that has the default effect slot:
\* the backend was reset and not started, the device is left stopped.
C29_SlotFailureLeavesStopped ==
    /\ last.op = "alcCreateContext" /\ last.ret = "null"
    /\ last.err = ALC_INVALID_DEVICE
    /\ last.calls # << >> /\ last.calls[Len(last.calls)] = "reset"
    /\ ~devs[last.dev].Running /\ ~devs[last.dev].BackendRunning
    /\ \E c \in SeqToSet(devs[last.dev].ContextList) : ctxs[c].DefaultSlot

\* ------------------------------------- the clock across a reconfiguration
\* Frequencies the application asks for and the backend settles on.
ClockFrequencies == ClockFrequency..(ClockFrequency + 2)

NextFrequency ==
    \/ mixIncrementBefore
    \/ mixSamplesDone
    \/ mixClockBase
    \/ mixSamplesWrap
    \/ mixIncrementAfter
    \/ \E running, given \in BOOLEAN, freq, backendFreq \in ClockFrequencies :
          UpdateDeviceParamsClock(running, given, freq, backendFreq)

SpecFrequency == InitList /\ [][NextFrequency]_vars

ClockValue(c) == ClockValueOf(c.ClockBase, c.SamplesDone, c.Frequency)

\* C30: a call of UpdateDeviceParams leaves the clock value as it was,
\* whatever the frequency was and is; it leaves MixCount's parity, and
\* SamplesDone at 0 unless it returned at once. UpdateClockBase adds 2 to
\* MixCount, adds to ClockBase the time of SamplesDone at the frequency in
\* force, and leaves SamplesDone at 0, so that the value is the same under
\* every frequency stored afterwards.
C30_ClockKeptAcrossUpdate ==
    [][ /\ clock'.updates # clock.updates
           => /\ ClockValue(clock') = ClockValue(clock)
              /\ clock'.MixCount - clock.MixCount \in { 0, 2, 4 }
              /\ \/ clock' = [ clock EXCEPT !.updates = @ + 1 ]
                 \/ clock'.SamplesDone = 0
        /\ LET u == UpdateClockBase(clock')
           IN  /\ u.MixCount = clock'.MixCount + 2
               /\ u.SamplesDone = 0
               /\ u.Frequency = clock'.Frequency
               /\ u.ClockBase = clock'.ClockBase
                    + (clock'.SamplesDone * NanosPerSecond) \div clock'.Frequency
               /\ \A f \in ClockFrequencies :
                    ClockValue([ u EXCEPT !.Frequency = f ]) = ClockValue(clock') ]_vars

\* The device was reconfigured to another frequency with part of a second
\* mixed: that part is in ClockBase now, and SamplesDone is 0.
C30_FractionFolded ==
    /\ clock.updates > 0 /\ clock.mixer = "idle"
    /\ clock.Frequency # ClockFrequency
    /\ clock.SamplesDone = 0
    /\ clock.ClockBase % NanosPerSecond # 0

\* ------------------------------------------------------- the voice block
\* A voice in use at index i with its marks: what it plays, and the data of
\* each of its sends.
UsedVoice(i, src, update, sends) ==
    [ DefaultVoice(sends) EXCEPT
        !.SourceID = src, !.Playing = (src # 0), !.position = i,
        !.current_buffer = i, !.loop_buffer = i + 1, !.Update = update,
        !.PropsSend = [ k \in 1..MaxSendCount |->
                          IF k <= sends THEN 10 * i + k ELSE 0 ],
        !.Send = [ k \in 1..sends |-> 20 * i + k ] ]

\* The voice blocks a context can have: the voices below VoiceCount were
\* given to sources (a stopped one has source id 0), some with an update
\* pending; the ones above were never used.
VoiceInputs ==
    { [ VoicesIdle EXCEPT
          !.Voices = [ i \in 1..max |->
                         IF i <= count
                         THEN UsedVoice(i, IF i \in playing THEN i ELSE 0,
                                        IF i \in pending THEN i ELSE 0, sends)
                         ELSE DefaultVoice(sends) ],
          !.MaxVoices = max, !.VoiceCount = count, !.sends = sends ] :
        max \in 0..VoiceSlots, count \in 0..VoiceSlots, sends \in 0..MaxSendCount,
        playing \in SUBSET (1..VoiceSlots), pending \in SUBSET (1..VoiceSlots) }

WellFormedVoices(v) ==
    /\ v.VoiceCount <= v.MaxVoices

InitVoices ==
    \E v \in { x \in VoiceInputs : WellFormedVoices(x) } :
        InitWithVoices([ DefaultEffect |-> FALSE ], BackendsDefault, v)

NextVoices ==
    \E num_voices \in 0..VoiceSlots, num_sends \in 0..MaxSendCount :
        AllocateVoicesCall(num_voices, num_sends)

SpecVoices == InitVoices /\ [][NextVoices]_vars

\* The block of a voice record: what AllocateVoices works on.
BlockOf(v) == << v.Voices, v.MaxVoices, v.VoiceCount, v.sends, v.freed >>

\* The voices of a block that hold the pending update u.
OwnersOf(v, u) == { i \in 1..v.MaxVoices : v.Voices[i].Update = u }

\* C31: AllocateVoices(context, n, old_sends) changes nothing when n is
\* MaxVoices and the device's send count is old_sends. Otherwise MaxVoices
\* becomes n, VoiceCount the smaller of its old value and n; each voice
\* below the new VoiceCount has the source id, playing flag, position,
\* buffers and pending update of the old voice at its index, its per-send
\* data below min(old_sends, new sends) and defaults above; each voice from
\* VoiceCount on is free; a pending update that moved has one owner and was
\* not deleted, and no update is deleted twice.
C31_VoicesReallocated ==
    [][ voices'.calls # voices.calls =>
        LET n == voices'.num_voices
            s == voices'.num_sends
            kept == mini(voices.sends, s)
        IN  IF n = voices.MaxVoices /\ s = voices.sends
            THEN BlockOf(voices') = BlockOf(voices)
            ELSE /\ voices'.MaxVoices = n
                 /\ Len(voices'.Voices) = n
                 /\ voices'.VoiceCount = mini(voices.VoiceCount, n)
                 /\ \A i \in 1..voices'.VoiceCount :
                      LET new == voices'.Voices[i]
                          old == voices.Voices[i]
                      IN  /\ new.SourceID = old.SourceID
                          /\ new.Playing = old.Playing
                          /\ new.position = old.position
                          /\ new.current_buffer = old.current_buffer
                          /\ new.loop_buffer = old.loop_buffer
                          /\ new.Update = old.Update
                          /\ Len(new.Send) = s
                          /\ \A k \in 1..s :
                               new.Send[k] = IF k <= kept THEN old.Send[k] ELSE 0
                          /\ \A k \in 1..MaxSendCount :
                               new.PropsSend[k]
                                 = IF k <= kept THEN old.PropsSend[k] ELSE 0
                          /\ new.Update # 0 =>
                               /\ OwnersOf(voices', new.Update) = { i }
                               /\ voices'.freed[new.Update] = voices.freed[new.Update]
                 /\ \A i \in (voices'.VoiceCount + 1)..n :
                      voices'.Voices[i] = DefaultVoice(s)
                 /\ \A u \in DOMAIN voices'.freed : voices'.freed[u] <= 1 ]_vars

\* A block was shrunk to one voice and one send: the voice kept its pending
\* update and the data of its first send, the data of its second send is
\* gone, and the update of the voice that was dropped was deleted once.
C31_VoiceMovedAndVoiceDropped ==
    /\ voices.calls > 0
    /\ voices.MaxVoices = 1 /\ voices.VoiceCount = 1 /\ voices.sends = 1
    /\ voices.Voices[1].Update = 1 /\ voices.Voices[1].SourceID = 1
    /\ voices.Voices[1].Send[1] # 0
    /\ voices.Voices[1].PropsSend[1] # 0 /\ voices.Voices[1].PropsSend[2] = 0
    /\ voices.freed[1] = 0 /\ voices.freed[2] = 1

\* ------------------------------------------------ closing a device in use
\* SpecClose: an application with up to two devices of the three kinds and
\* up to two contexts, which its threads make current, process-wide and
\* for themselves, and which closes the devices with contexts attached.
NextClose ==
    \/ alcOpenDevice(ALC_NO_ERROR, TwoDevices)
    \/ alcCaptureOpenDevice(1024, TRUE, ALC_NO_ERROR, TwoDevices)
    \/ alcLoopbackOpenDeviceSOFT(TwoDevices)
    \/ \E t \in Threads, p \in Pointers : alcCloseDevice(t, p)
    \/ \E p \in Pointers, a \in LifecycleAttrLists :
          alcCreateContext(p, a, EnvOK, TRUE, TwoContexts)
    \/ \E t \in Threads, c \in CtxPointers : alcMakeContextCurrent(t, c)
    \/ \E t \in Threads, c \in CtxPointers : alcSetThreadContext(t, c)

SpecClose == InitList /\ [][NextClose]_vars

\* C32: alcCloseDevice that returns true was given a listed playback or
\* loopback device; afterwards the device is not in the device list, its
\* context list is empty, no context that was attached to it is verified,
\* is the process-wide current context or the calling thread's context,
\* and its backend is stopped with DEVICE_RUNNING clear. Given a listed
\* capture device it returns false, records ALC_INVALID_DEVICE on it and
\* changes nothing else.
C32_CloseReleasesContexts ==
    [][ last'.op = "alcCloseDevice" =>
        LET p == last'.dev
            attached == IF p \in DevIds THEN SeqToSet(devs[p].ContextList) ELSE {}
        IN  /\ last'.ret = "true" =>
                /\ IsListed(p) /\ devs[p].Type \in { Playback, Loopback }
                /\ ~InSeq(p, DeviceList')
                /\ devs'[p].ContextList = << >>
                /\ \A c \in attached :
                     /\ VerifyContext(c)' = NULL
                     /\ GlobalContext' # c
                     /\ LocalContext'[last'.thread] # c
                /\ ~devs'[p].Running /\ ~devs'[p].BackendRunning
                /\ devs[p].Running => last'.calls = << "stop" >>
            /\ (IsListed(p) /\ devs[p].Type = Capture) =>
                /\ last'.ret = "false"
                /\ devs' = [ devs EXCEPT ![p].LastError = ALC_INVALID_DEVICE ]
                /\ last'.calls = << >>
                /\ UNCHANGED << DeviceList, ctxs, LastNullDeviceError,
                                GlobalContext, LocalContext >> ]_vars

\* A running device was closed by one thread while a context attached to
\* it was the thread-local context of another thread: the context lives on,
\* bound to the device, and is in no context list.
C32_ClosedWithContextHeldElsewhere ==
    /\ last.op = "alcCloseDevice" /\ last.ret = "true"
    /\ last.calls = << "stop" >>
    /\ ~InSeq(last.dev, DeviceList)
    /\ devs[last.dev].alive /\ devs[last.dev].ContextList = << >>
    /\ GlobalContext = NULL /\ LocalContext[last.thread] = NULL
    /\ \E c \in CtxIds, t \in Threads \ { last.thread } :
         /\ ctxs[c].alive /\ ctxs[c].Device = last.dev
         /\ LocalContext[t] = c

\* ------------------------------------- alcCreateContext and alcCloseDevice
\* SpecRace: a thread that calls alcCreateContext on a playback device up
\* to MaxCreates times while another thread closes the device, each call
\* taken statement by statement.
NextRace ==
    \/ ccListLock
    \/ ccVerify
    \/ ccBackendLock
    \/ \E ok \in BOOLEAN : ccUpdate(ok)
    \/ ccLink
    \/ ccDefaultSlot
    \/ ccReturn
    \/ clListLock
    \/ clBackendLock
    \/ clUnlink
    \/ clRelease
    \/ clStop

SpecRace == InitList /\ [][NextRace]_vars

\* C33: with alcCreateContext and alcCloseDevice running on one device, a
\* context is linked only while the device is listed and before the close
\* has unlinked the device and begun its walk; a creation that returns null
\* recorded ALC_INVALID_DEVICE and linked nothing, one that returns the
\* context had linked it; and when the close has returned, the context
\* list is empty and every context made was released.
C33_LinkedBeforeCloseOrRefused ==
    [][ /\ Len(race'.ContextList) > Len(race.ContextList)
           => /\ race.listed /\ race'.listed
              /\ race.close.pc \notin { "unlink", "release" }
              /\ race.close.ret = "none"
        /\ ~race'.listed
           => SeqToSet(race'.ContextList) \subseteq SeqToSet(race.ContextList)
        /\ race'.close.ret = "true"
           => /\ race'.ContextList = << >>
              /\ \A c \in 1..MaxCreates : race'.ctxRef[c] = 0
        /\ (race.create.pc # "idle" /\ race'.create.pc = "idle")
           => \/ /\ race'.create.ret = "null"
                 /\ race'.ContextList = race.ContextList
                 /\ \/ race.create.pc = "verify" /\ ~race.listed
                       /\ race'.NullError = ALC_INVALID_DEVICE
                    \/ race.create.pc = "update"
                       /\ race'.LastError = ALC_INVALID_DEVICE
              \/ /\ race'.create.ret = "context"
                 /\ \/ InSeq(race.create.ctx, race'.ContextList)
                    \/ race'.deleted[race.create.ctx] /\ ~race'.listed ]_vars

\* alcCloseDevice holds ListLock and waits for BackendLock while
\* alcCreateContext, which holds it, is about to link its context.
C33_CloseWaitsForCreate ==
    /\ race.close.pc = "backlock" /\ race.ListLock = "close"
    /\ race.create.pc = "link" /\ race.BackendLock = "create"
    /\ race.ContextList # << >>

\* C39: whenever alcCreateContext reads or writes the context it has linked,
\* after giving BackendLock back, the context has not been deleted.
C39_ContextAccessCounted ==
    race.create.pc = "slot" => ~race.deleted[race.create.ctx]

\* alcCloseDevice has returned, having deleted the context that
\* alcCreateContext linked and is about to read.
C39_DeletedContextAccessed ==
    /\ race.create.pc = "slot" /\ race.deleted[race.create.ctx]
    /\ race.close.ret = "true"

\* ------------------------------------- ALCcontext_ProcessUpdates ends
\* SpecTerminates: a thread that defers, sets properties and processes the
\* updates of a context whose mixer runs passes for ever, or stops after
\* any pass. A thread inside ALCcontext_ProcessUpdates is scheduled, a pass
\* that has begun is finished, and the wait, which reads UpdateCount again
\* and again, gets to read it between two passes.
NextTerminates ==
    \/ ALCcontext_DeferUpdates
    \/ \E e \in EntitySet : SetProperty(e)
    \/ puExchange
    \/ puReturn
    \/ puHold
    \/ puWait
    \/ \E i \in 1..Len(Entities) : puUpdateProps(i)
    \/ puRelease
    \/ mxBeginAgain
    \/ mxCheck
    \/ mxApply
    \/ mxEnd

SpecTerminates ==
    /\ InitList /\ [][NextTerminates]_vars
    /\ WF_vars(puSteps) /\ SF_vars(puWait) /\ WF_vars(mxSteps)

PlaybackListed(p) == IsListed(p) /\ devs[p].Type = Playback

\* C35: over the calls on a playback device, DEVICE_RUNNING and
\* DEVICE_PAUSED are never both set. alcDevicePauseSOFT leaves the device
\* stopped and paused. alcDeviceResumeSOFT changes nothing on a device that
\* is not paused; on a paused one it clears DEVICE_PAUSED, and the device
\* runs afterwards exactly when a context is attached and the backend's
\* start succeeded; a start that failed disconnects the device and records
\* ALC_INVALID_DEVICE.
C35_RunningOrPaused ==
    [][ /\ \A d \in DevIds : ~(devs'[d].Running /\ devs'[d].Paused)
        /\ (last'.op = "alcDevicePauseSOFT" /\ PlaybackListed(last'.dev))
           => /\ devs'[last'.dev].Paused
              /\ ~devs'[last'.dev].Running /\ ~devs'[last'.dev].BackendRunning
              /\ last'.calls = StopCalls(devs[last'.dev])
        /\ (last'.op = "alcDeviceResumeSOFT" /\ PlaybackListed(last'.dev))
           => LET p == last'.dev
              IN  IF ~devs[p].Paused
                  THEN devs' = devs /\ ctxs' = ctxs /\ last'.calls = << >>
                  ELSE /\ ~devs'[p].Paused
                       /\ devs'[p].Running
                            <=> (devs[p].ContextList # << >>
                                 /\ last'.calls = << "start" >>)
                       /\ devs'[p].BackendRunning = devs'[p].Running
                       /\ devs[p].ContextList = << >> => last'.calls = << >>
                       /\ last'.calls = << "start failed" >>
                            => /\ ~devs'[p].Connected
                               /\ devs'[p].LastError = ALC_INVALID_DEVICE ]_vars

\* A paused device with a context was resumed and runs.
C35_ResumedWithContext ==
    /\ last.op = "alcDeviceResumeSOFT" /\ last.calls = << "start" >>
    /\ devs[last.dev].Running /\ ~devs[last.dev].Paused
    /\ devs[last.dev].ContextList # << >>

\* C36: alcDestroyContext of an attached context stops the backend and
\* clears DEVICE_RUNNING when the context was the only one attached to its
\* device; when another context stays attached, wherever the destroyed one
\* was in the list, it makes no call on the backend and leaves the running
\* state as it was.
C36_StopWithLastContext ==
    [][ (last'.op = "alcDestroyContext" /\ VerifyContext(last'.ctx) # NULL)
        => LET c == last'.ctx
               d == ctxs[c].Device
           IN  IF devs[d].ContextList = << c >>
               THEN /\ last'.calls = << "stop" >>
                    /\ ~devs'[d].Running /\ ~devs'[d].BackendRunning
               ELSE /\ last'.calls = << >>
                    /\ devs'[d].Running = devs[d].Running
                    /\ devs'[d].BackendRunning = devs[d].BackendRunning ]_vars

\* The context in the middle of three was destroyed and the device runs on.
C36_MiddleDestroyedStillRunning ==
    /\ last.op = "alcDestroyContext"
    /\ Len(last.list) = MaxContexts /\ last.list[2] = last.ctx
    /\ last.calls = << >>
    /\ \E d \in DevIds : /\ devs[d].Running /\ devs[d].BackendRunning
                         /\ devs[d].ContextList
                              = << last.list[1], last.list[MaxContexts] >>

\* C37: a playback device that runs has a context attached.
C37_RunningHasContext ==
    \A d \in DevIds :
        (devs[d].Type = Playback /\ devs[d].Running) => devs[d].ContextList # << >>

\* alcResetDeviceSOFT returned true on a playback device that has no
\* context, and the device runs.
C37_ResetStartedWithoutContext ==
    /\ last.op = "alcResetDeviceSOFT" /\ last.ret = "true"
    /\ devs[last.dev].Type = Playback
    /\ devs[last.dev].Running /\ devs[last.dev].ContextList = << >>

\* ----------------------------------------------------------- the locks
\* SpecLocks: the threads of an application run the API calls on two
\* devices, each with a context, in any order and at the same time.
NextLocks ==
    \/ \E t \in Threads, op \in LockOps, d \in LockDevices : LockCall(t, op, d)
    \/ \E t \in Threads : LockAcquire(t)
    \/ \E t \in Threads : LockRelease(t)
    \/ \E t \in Threads : LockReturn(t)

SpecLocks == InitList /\ [][NextLocks]_vars

\* The place of a lock in the order.
LockRank(l) ==
    CASE l[1] = "ListLock" -> 1
      [] l[1] = "BackendLock" -> 2
      [] l[1] = "PropLock" -> 3
      [] l[1] \in { "EffectSlotLock", "SourceLock" } -> 4

HeldBy(t) == { l \in LockSet : locks.owner[l] = t }

\* Thread t is at a lock that another thread holds.
Wanted(t) == Head(locks.thr[t].todo)[2]
Blocked(t) ==
    /\ locks.thr[t].todo # << >>
    /\ Head(locks.thr[t].todo)[1] = "lock"
    /\ locks.owner[Wanted(t)] \notin { 0, t }

\* A set of threads each of which waits for a lock one of them holds.
Deadlocked ==
    \E S \in SUBSET Threads :
        /\ S # {}
        /\ \A t \in S : Blocked(t) /\ locks.owner[Wanted(t)] \in S

\* C38: a thread that takes a lock holds only locks that come before it in
\* the order ListLock, BackendLock, PropLock, EffectSlotLock or SourceLock
\* (or takes ListLock, which it holds, again); a thread that takes ListLock
\* while it holds a BackendLock holds ListLock already; and no set of
\* threads wait for each other's locks.
C38_LockOrder ==
    [][ /\ \A t \in Threads, l \in LockSet :
             (locks'.owner[l] = t /\ locks'.depth[l] > locks.depth[l])
             => /\ \A h \in HeldBy(t) \ { l } : LockRank(h) < LockRank(l)
                /\ (l = ListLock /\ \E d \in LockDevices : BackendLock(d) \in HeldBy(t))
                     => ListLock \in HeldBy(t)
        /\ ~Deadlocked' ]_vars

\* alcCreateContext holds BackendLock and PropLock of a device and waits
\* for nothing, while alcDestroyContext holds ListLock and waits for that
\* BackendLock.
C38_DestroyWaitsForCreate ==
    \E t, u \in Threads, d \in LockDevices :
        /\ locks.thr[t].op = "alcCreateContext"
        /\ { BackendLock(d), PropLock(d), SourceLock(d) } \subseteq HeldBy(t)
        /\ locks.thr[u].op = "alcDestroyContext"
        /\ ListLock \in HeldBy(u) /\ Blocked(u) /\ Wanted(u) = BackendLock(d)

\* ------------------------- UpdateDeviceParams without attributes, running
\* C40: UpdateDeviceParams with an empty attribute list on a running
\* non-loopback device returns ALC_NO_ERROR, calls nothing of the backend and
\* leaves the device and every context as they are, whatever the backend
\* would answer; an alcCreateContext that makes this call succeeds, keeps
\* the device's running state, format, send count, mix buffer and views,
\* only clears LastError, takes its reference and links the new context, and
\* leaves every context attached before as it was.
C40_NoAttributesRunningUntouched ==
    [][ \A p \in SeqToSet(DeviceList) :
          (devs[p].Type # Loopback /\ devs[p].Running)
          => /\ \A env \in UpdateEnvs :
                  UpdateDeviceParams(devs[p], ctxs, AttrEmpty, env)
                    = UDPResult(ALC_NO_ERROR, devs[p], ctxs, << >>)
             /\ (/\ last'.op = "alcCreateContext" /\ last'.dev = p
                 /\ last'.attrs = AttrEmpty /\ ~CreateContextRefused(p))
                => /\ last'.ret = "context"
                   /\ last'.err = ALC_NO_ERROR
                   /\ last'.calls = << >>
                   /\ devs'[p] = [ devs[p] EXCEPT !.LastError = ALC_NO_ERROR,
                                                  !.ref = @ + 1,
                                                  !.ContextList = << last'.ctx >> \o @ ]
                   /\ \A c \in SeqToSet(devs[p].ContextList) : ctxs'[c] = ctxs[c] ]_vars

\* A second context was created without attributes on a running playback
\* device whose first context has a source: no backend call was made.
C40_SecondContextWithoutAttributes ==
    /\ last.op = "alcCreateContext" /\ last.ret = "context"
    /\ last.attrs = AttrEmpty /\ last.calls = << >>
    /\ IsListed(last.dev)
    /\ devs[last.dev].Type = Playback
    /\ devs[last.dev].Running /\ devs[last.dev].BackendRunning
    /\ Len(devs[last.dev].ContextList) >= 2
    /\ \E c \in SeqToSet(devs[last.dev].ContextList) :
         c # last.ctx /\ Len(ctxs[c].Sources) > 0
====
